---- MODULE Spec2Model ----
(***************************************************************************)
(* Model of the AI service adapter layer of the meeting-summary agent     *)
(* (ai_service_adapter.py): the three backend adapters, their degradation *)
(* templates, the AIServiceManager with its primary/fallback chain, and    *)
(* the create_ai_service_manager factory; of the ContextOptimizer          *)
(* (context_optimizer.py): context analysis, prompt building and summary   *)
(* post-processing; and of EnhancedMeetingAgent.process_subtitle_directly  *)
(* (enhanced_agent_demo.py) with the base agent it falls back to           *)
(* (meeting_summary_agent.py).                                             *)
(*                                                                         *)
(* Strings of the program that matter character by character (transcripts, *)
(* backend response bodies) are sequences of one-character strings.        *)
(* Chinese string constants of the source are written as ASCII stand-ins.  *)
(***************************************************************************)
EXTENDS Integers, Sequences, FiniteSets, TLC

VARIABLES adapters, current_adapter, fallback_order, op, args, result, trace

vars == <<adapters, current_adapter, fallback_order, op, args, result, trace>>

(***************************************************************************)
(* Bounds of the model.                                                    *)
(***************************************************************************)
\* longest fallback order handed to set_fallback_order / the factory
MaxFallback == 2

(***************************************************************************)
(* Values.                                                                 *)
(***************************************************************************)
\* Python's None
None == "None"

\* adapter names used by the factory and by callers of register_adapter
Names == {"openai", "local_model", "baidu"}

\* the three concrete AIServiceAdapter classes; one instance of each
AdapterKinds == {"OpenAIAdapter", "LocalModelAdapter", "BaiduAIAdapter"}

\* the absence of a returned value (the call raised, or returns nothing)
NoValue == [type |-> "none"]

\* all sequences over S of length at most n
RECURSIVE SeqsUpTo(_, _)
SeqsUpTo(S, n) ==
    IF n = 0 THEN {<<>>}
    ELSE LET shorter == SeqsUpTo(S, n - 1)
         IN  shorter \cup {Append(s, x) : s \in {t \in shorter : Len(t) = n - 1}, x \in S}

(***************************************************************************)
(* Transcripts: Python str as a sequence of characters, "\n" the newline.  *)
(***************************************************************************)
NL == "\n"

TranscriptSixLines == <<"a", NL, "b", NL, "c", NL, "d", NL, "e", NL, "f">>

\* the transcript summarised through the manager
Transcripts == {TranscriptSixLines}

\* str.split('\n'): the pieces between newlines; always at least one piece
RECURSIVE SplitFrom(_, _, _)
SplitFrom(s, i, cur) ==
    IF i > Len(s) THEN <<cur>>
    ELSE IF s[i] = NL THEN <<cur>> \o SplitFrom(s, i + 1, <<>>)
    ELSE SplitFrom(s, i + 1, Append(cur, s[i]))

\* the pieces with the empty ones left out
SplitLinesNonEmpty(s) == SelectSeq(SplitFrom(s, 1, <<>>), LAMBDA piece : piece # <<>>)

SplitLines(s) == SplitFrom(s, 1, <<>>)

\* seq[:n]
Take(seq, n) == SubSeq(seq, 1, IF Len(seq) < n THEN Len(seq) ELSE n)

(***************************************************************************)
(* Prompts: a str.format template as a sequence of tokens, a literal chunk *)
(* or a replacement field {name}.                                          *)
(***************************************************************************)
Lit == [t |-> "lit", name |-> "", text |-> <<>>]

Field(n) == [t |-> "field", name |-> n, text |-> <<>>]

\* literal text that was computed when the prompt was built
Text(v) == [t |-> "lit", name |-> "", text |-> v]

\* a template whose only replacement field is {transcript}
PromptTemplate == <<Lit, Field("transcript"), Lit>>

\* a template that also carries a brace-delimited JSON example: str.format
\* reads the text after the brace as the name of a replacement field
PromptJsonExample == <<Lit, Field("title"), Lit>>

\* the prompt handed to the manager
Prompts == {PromptTemplate}

\* the prompts handed to an adapter directly
AdapterPrompts == {PromptTemplate, PromptJsonExample}

\* prompt.format(transcript=transcript): every field is looked up among the
\* keyword arguments; a name other than "transcript" raises KeyError
PromptFormat(prompt, transcript) ==
    IF \E i \in 1..Len(prompt) : prompt[i].t = "field" /\ prompt[i].name # "transcript"
    THEN [ok |-> FALSE, text |-> <<>>]
    ELSE [ok |-> TRUE,
          text |-> [i \in 1..Len(prompt) |->
                      IF prompt[i].t = "field" THEN [t |-> "text", chars |-> transcript]
                      ELSE [t |-> "text", chars |-> <<"p">>]]]

(***************************************************************************)
(* Backend responses.  A response body is a sequence of characters; "D"    *)
(* stands for the members of a JSON object that has every SummaryDocument  *)
(* key.                                                                    *)
(***************************************************************************)
BodyDoc == <<"{", "D", "}">>

BodyEmptyObject == <<"{", "}">>

BodyList == <<"[", "]">>

BodyText == <<"x">>

BodyWrappedDoc == <<"x", "{", "D", "}", "x">>

\* the bodies a backend answers with; the last four: a closing brace before
\* the only opening one, one brace without the other, and a document followed
\* by text that holds another closing brace
Bodies == {BodyDoc, BodyEmptyObject, BodyList, BodyText, BodyWrappedDoc,
           <<"}", "{">>, <<"{", "D">>, <<"D", "}">>, <<"{", "D", "}", "x", "}">>}

\* the keys of the SummaryDocument schema
RequiredKeys == {"title", "overview", "key_points", "decisions",
                 "action_items", "risks", "opportunities"}

\* what the backend does with one call: the client/transport raises (network
\* error, bad credentials, outage), answers with a non-success HTTP status,
\* or answers with a body.  NotCalled: the call was never issued.
BackendException == [status |-> "exception", body |-> <<>>]

BackendHttpError == [status |-> "http_error", body |-> <<>>]

BackendOk(b) == [status |-> "ok", body |-> b]

NotCalled == [status |-> "not_called", body |-> <<>>]

\* what the backend of an adapter class can do, answering with a body of B;
\* the local model is called in process: there is no HTTP status
BackendOutcomes(kind, B) ==
    {BackendException} \cup {BackendOk(b) : b \in B}
      \cup (IF kind = "LocalModelAdapter" THEN {} ELSE {BackendHttpError})

\* the bodies answered to calls made through the manager: a summary document
\* and a text that is no JSON
ManagerBodies == {BodyDoc, BodyText}

\* json.loads on the bodies above: the decoded value, or JSONDecodeError
JsonLoads(s) ==
    IF s = BodyDoc THEN [ok |-> TRUE, val |-> [type |-> "dict", keys |-> RequiredKeys, origin |-> "backend"]]
    ELSE IF s = BodyEmptyObject THEN [ok |-> TRUE, val |-> [type |-> "dict", keys |-> {}, origin |-> "backend"]]
    ELSE IF s = BodyList THEN [ok |-> TRUE, val |-> [type |-> "list"]]
    ELSE [ok |-> FALSE, val |-> NoValue]

\* str.find(c): 0-based index of the first c, -1 when there is none
Find(s, c) ==
    IF \E i \in 1..Len(s) : s[i] = c
    THEN (CHOOSE i \in 1..Len(s) : s[i] = c /\ \A j \in 1..(i - 1) : s[j] # c) - 1
    ELSE -1

\* str.rfind(c): 0-based index of the last c, -1 when there is none
RFind(s, c) ==
    IF \E i \in 1..Len(s) : s[i] = c
    THEN (CHOOSE i \in 1..Len(s) : s[i] = c /\ \A j \in (i + 1)..Len(s) : s[j] # c) - 1
    ELSE -1

\* s[a:b] for 0 <= a < b <= len(s)
Slice(s, a, b) == SubSeq(s, a + 1, b)

(***************************************************************************)
(* Degradation templates.                                                  *)
(***************************************************************************)
\* the key_points list built from the first lines of the transcript
FallbackKeyPoints(lines, topic) ==
    [i \in 1..Len(lines) |->
        [topic |-> <<topic, i>>, content |-> lines[i],
         participants |-> <<"unknown">>, timestamp |-> "unknown"]]

FallbackDocument(title, overview, lines, topic) ==
    [type |-> "dict", keys |-> RequiredKeys, origin |-> "template",
     title |-> title, overview |-> overview,
     key_points |-> FallbackKeyPoints(lines, topic),
     decisions |-> <<>>, action_items |-> <<>>, risks |-> <<>>, opportunities |-> <<>>]

\* OpenAIAdapter._create_fallback_summary
CreateFallbackSummary(transcript) ==
    LET lines == Take(SplitLines(transcript), 5)
    IN  FallbackDocument("summary (OpenAI degraded)", <<"points", Len(lines)>>,
                         lines, "point")

\* LocalModelAdapter._create_local_fallback_summary
CreateLocalFallbackSummary(transcript) ==
    LET lines == Take(SplitLines(transcript), 3)
    IN  FallbackDocument("summary (local model)", <<"local model summary">>,
                         lines, "item")

\* BaiduAIAdapter._create_baidu_fallback_summary
CreateBaiduFallbackSummary(transcript) ==
    LET lines == Take(SplitLines(transcript), 4)
    IN  FallbackDocument("summary (Baidu AI)", <<"Baidu summary">>,
                         lines, "discussion")

\* the degradation template of an adapter class
DegradationTemplate(kind, transcript) ==
    IF kind = "OpenAIAdapter" THEN CreateFallbackSummary(transcript)
    ELSE IF kind = "LocalModelAdapter" THEN CreateLocalFallbackSummary(transcript)
    ELSE CreateBaiduFallbackSummary(transcript)

(***************************************************************************)
(* generate_summary of the three adapters.  be is what the backend does if *)
(* it is called.  The outcome is [ok, val]: ok = FALSE when the method     *)
(* raises, otherwise val is the returned value.                            *)
(***************************************************************************)
Raised == [ok |-> FALSE, val |-> NoValue]

Returned(v) == [ok |-> TRUE, val |-> v]

\* OpenAIAdapter.generate_summary: JSONDecodeError degrades, anything else
\* is logged and re-raised
OpenAIGenerateSummary(transcript, prompt, be) ==
    IF ~PromptFormat(prompt, transcript).ok THEN Raised
    ELSE IF be.status # "ok" THEN Raised
    ELSE LET parsed == JsonLoads(be.body)
         IN  IF parsed.ok THEN Returned(parsed.val)
             ELSE Returned(CreateFallbackSummary(transcript))

\* LocalModelAdapter.generate_summary with the outer handler re-raising
LocalGenerateSummaryPropagates(transcript, prompt, be) ==
    IF ~PromptFormat(prompt, transcript).ok THEN Raised
    ELSE IF be.status # "ok" THEN Raised
    ELSE LET json_start == Find(be.body, "{")
             json_end == RFind(be.body, "}") + 1
         IN  IF json_start # -1 /\ json_end > json_start
             THEN LET parsed == JsonLoads(Slice(be.body, json_start, json_end))
                  IN  IF parsed.ok THEN Returned(parsed.val)
                      ELSE Returned(CreateLocalFallbackSummary(transcript))
             ELSE Returned(CreateLocalFallbackSummary(transcript))

\* LocalModelAdapter.generate_summary cutting the text at the first }
LocalGenerateSummaryFirstClose(transcript, prompt, be) ==
    IF ~PromptFormat(prompt, transcript).ok THEN Returned(CreateLocalFallbackSummary(transcript))
    ELSE IF be.status # "ok" THEN Returned(CreateLocalFallbackSummary(transcript))
    ELSE LET json_start == Find(be.body, "{")
             json_end == Find(be.body, "}") + 1
         IN  IF json_start # -1 /\ json_end > json_start
             THEN LET parsed == JsonLoads(Slice(be.body, json_start, json_end))
                  IN  IF parsed.ok THEN Returned(parsed.val)
                      ELSE Returned(CreateLocalFallbackSummary(transcript))
             ELSE Returned(CreateLocalFallbackSummary(transcript))

\* LocalModelAdapter.generate_summary: the text from the first { to the last }
\* is decoded; every failure degrades
LocalGenerateSummary(transcript, prompt, be) ==
    IF ~PromptFormat(prompt, transcript).ok THEN Returned(CreateLocalFallbackSummary(transcript))
    ELSE IF be.status # "ok" THEN Returned(CreateLocalFallbackSummary(transcript))
    ELSE LET json_start == Find(be.body, "{")
             json_end == RFind(be.body, "}") + 1
         IN  IF json_start # -1 /\ json_end > json_start
             THEN LET parsed == JsonLoads(Slice(be.body, json_start, json_end))
                  IN  IF parsed.ok THEN Returned(parsed.val)
                      ELSE Returned(CreateLocalFallbackSummary(transcript))
             ELSE Returned(CreateLocalFallbackSummary(transcript))

\* BaiduAIAdapter.generate_summary with the outer handler re-raising
BaiduGenerateSummaryPropagates(transcript, prompt, be) ==
    IF ~PromptFormat(prompt, transcript).ok THEN Raised
    ELSE IF be.status = "exception" THEN Raised
    ELSE IF be.status = "ok"
         THEN LET parsed == JsonLoads(be.body)
              IN  IF parsed.ok THEN Returned(parsed.val)
                  ELSE Returned(CreateBaiduFallbackSummary(transcript))
         ELSE Returned(CreateBaiduFallbackSummary(transcript))

\* BaiduAIAdapter.generate_summary: a non-200 status and every exception degrade
BaiduGenerateSummary(transcript, prompt, be) ==
    IF ~PromptFormat(prompt, transcript).ok THEN Returned(CreateBaiduFallbackSummary(transcript))
    ELSE IF be.status = "exception" THEN Returned(CreateBaiduFallbackSummary(transcript))
    ELSE IF be.status = "ok"
         THEN LET parsed == JsonLoads(be.body)
              IN  IF parsed.ok THEN Returned(parsed.val)
                  ELSE Returned(CreateBaiduFallbackSummary(transcript))
         ELSE Returned(CreateBaiduFallbackSummary(transcript))

GenerateSummary(kind, transcript, prompt, be) ==
    IF kind = "OpenAIAdapter" THEN OpenAIGenerateSummary(transcript, prompt, be)
    ELSE IF kind = "LocalModelAdapter" THEN LocalGenerateSummary(transcript, prompt, be)
    ELSE BaiduGenerateSummary(transcript, prompt, be)

(***************************************************************************)
(* is_available of the three adapters.  st holds the fields of the adapter *)
(* instance the probe reads: client and the outcome of client.Model.list() *)
(* for OpenAI, model and tokenizer for the local model, access_token for   *)
(* Baidu.                                                                  *)
(***************************************************************************)
BoolValue(b) == [type |-> "bool", b |-> b]

AdapterStates(kind) ==
    IF kind = "OpenAIAdapter"
    THEN [client : {None, "openai"}, list_call : {"ok", "raises"},
          model : {None}, tokenizer : {None}, access_token : {None}]
    ELSE IF kind = "LocalModelAdapter"
    THEN [client : {None}, list_call : {"ok"},
          model : {None, "model"}, tokenizer : {None, "tokenizer"}, access_token : {None}]
    ELSE [client : {None}, list_call : {"ok"},
          model : {None}, tokenizer : {None}, access_token : {None, "token"}]

\* OpenAIAdapter.is_available without its try/except
OpenAIIsAvailableUnguarded(st) ==
    IF st.client = None THEN Raised
    ELSE IF st.list_call = "raises" THEN Raised
    ELSE Returned(BoolValue(TRUE))

\* OpenAIAdapter.is_available: the metadata call inside try, bare except
OpenAIIsAvailable(st) ==
    IF st.client = None THEN Returned(BoolValue(FALSE))
    ELSE IF st.list_call = "raises" THEN Returned(BoolValue(FALSE))
    ELSE Returned(BoolValue(TRUE))

\* LocalModelAdapter.is_available
LocalIsAvailable(st) == Returned(BoolValue(st.model # None /\ st.tokenizer # None))

\* BaiduAIAdapter.is_available
BaiduIsAvailable(st) == Returned(BoolValue(st.access_token # None))

IsAvailable(kind, st) ==
    IF kind = "OpenAIAdapter" THEN OpenAIIsAvailable(st)
    ELSE IF kind = "LocalModelAdapter" THEN LocalIsAvailable(st)
    ELSE BaiduIsAvailable(st)

(***************************************************************************)
(* AIServiceManager.  adapters maps a name to the adapter registered under *)
(* it, None when the name is not a key of the dict.  op, args and result   *)
(* record the most recent call and what it returned or raised; trace is    *)
(* the sequence of adapter methods that call invoked.                      *)
(***************************************************************************)
\* the outcome of a call on the manager or of the factory
ReturnValue(v) == [raised |-> FALSE, exc |-> "", msg |-> <<>>, value |-> v]

Raise(exc, msg) == [raised |-> TRUE, exc |-> exc, msg |-> msg, value |-> NoValue]

\* the message of the RuntimeError of generate_summary_with_fallback, a
\* constant text: the words of "all AI adapters are unavailable"
ExhaustionMessage == <<"all", "AI", "adapters", "unavailable">>

\* the message of the ValueError of set_primary_adapter: f"... {name}"
MissingAdapterMessage(name) == <<"adapter", "missing", name>>

\* Python truth value of the primary's name: None and "" are false
Truthy(name) == name # None /\ name # ""

\* name in self.adapters
Registered(name) == name \in Names /\ adapters[name] # None

\* one adapter method invoked by the manager: position 0 is the primary,
\* position i >= 1 the i-th entry of the fallback order
ProbeEvent(slot, name, avail) ==
    [slot |-> slot, name |-> name, adapter |-> adapters[name],
     call |-> "is_available", ok |-> avail, val |-> NoValue]

GenerateEvent(slot, name, out) ==
    [slot |-> slot, name |-> name, adapter |-> adapters[name],
     call |-> "generate_summary", ok |-> out.ok, val |-> out.val]

\* what one candidate can do when the manager reaches it: is_available()
\* answers false, or answers true and generate_summary runs against some
\* behaviour of the backend
AttemptOutcomes(kind, transcript, prompt) ==
    {[avail |-> FALSE, out |-> Raised]}
    \cup {[avail |-> TRUE, out |-> GenerateSummary(kind, transcript, prompt, be)] :
            be \in BackendOutcomes(kind, ManagerBodies)}

\* AttemptOutcomes for every adapter class, transcript and prompt, computed once
AttemptTable ==
    [k \in AdapterKinds, t \in Transcripts, p \in Prompts |-> AttemptOutcomes(k, t, p)]

Attempts(kind, transcript, prompt) ==
    IF <<kind, transcript, prompt>> \in DOMAIN AttemptTable
    THEN AttemptTable[kind, transcript, prompt]
    ELSE AttemptOutcomes(kind, transcript, prompt)

\* the body calling generate_summary whatever is_available() answered
TryAdapterIgnoresProbe(slot, name, transcript, prompt) ==
    {[done |-> att.out.ok, value |-> att.out.val,
      events |-> <<ProbeEvent(slot, name, att.avail),
                   GenerateEvent(slot, name, att.out)>>] :
       att \in Attempts(adapters[name], transcript, prompt)}

\* the body shared by the primary block and the loop body: probe the adapter
\* and, if it is available, call it.  done = TRUE when the call returned.
TryAdapter(slot, name, transcript, prompt) ==
    {IF ~att.avail
     THEN [done |-> FALSE, value |-> NoValue,
           events |-> <<ProbeEvent(slot, name, FALSE)>>]
     ELSE [done |-> att.out.ok, value |-> att.out.val,
           events |-> <<ProbeEvent(slot, name, TRUE),
                        GenerateEvent(slot, name, att.out)>>] :
       att \in Attempts(adapters[name], transcript, prompt)}

\* the loop walking the fallback order from its end
RECURSIVE FallbackLoopReversed(_, _, _, _)
FallbackLoopReversed(i, tr, transcript, prompt) ==
    IF i > Len(fallback_order)
    THEN {[result |-> Raise("RuntimeError", ExhaustionMessage), trace |-> tr]}
    ELSE LET k == Len(fallback_order) + 1 - i
         IN  IF ~Registered(fallback_order[k])
             THEN FallbackLoopReversed(i + 1, tr, transcript, prompt)
             ELSE UNION {IF t.done
                         THEN {[result |-> ReturnValue(t.value), trace |-> tr \o t.events]}
                         ELSE FallbackLoopReversed(i + 1, tr \o t.events, transcript, prompt) :
                           t \in TryAdapter(k, fallback_order[k], transcript, prompt)}

\* the loop with break in place of continue: a raising fallback ends the walk
RECURSIVE FallbackLoopBreaks(_, _, _, _)
FallbackLoopBreaks(i, tr, transcript, prompt) ==
    IF i > Len(fallback_order)
    THEN {[result |-> Raise("RuntimeError", ExhaustionMessage), trace |-> tr]}
    ELSE IF ~Registered(fallback_order[i])
    THEN FallbackLoopBreaks(i + 1, tr, transcript, prompt)
    ELSE UNION {IF t.done
                THEN {[result |-> ReturnValue(t.value), trace |-> tr \o t.events]}
                ELSE IF Len(t.events) = 2
                THEN {[result |-> Raise("RuntimeError", ExhaustionMessage),
                       trace |-> tr \o t.events]}
                ELSE FallbackLoopBreaks(i + 1, tr \o t.events, transcript, prompt) :
                  t \in TryAdapter(i, fallback_order[i], transcript, prompt)}

\* the loop passing over a name that was already tried in this call
RECURSIVE FallbackLoopSkipsTried(_, _, _, _)
FallbackLoopSkipsTried(i, tr, transcript, prompt) ==
    IF i > Len(fallback_order)
    THEN {[result |-> Raise("RuntimeError", ExhaustionMessage), trace |-> tr]}
    ELSE IF ~Registered(fallback_order[i])
    THEN FallbackLoopSkipsTried(i + 1, tr, transcript, prompt)
    ELSE IF \E j \in 1..Len(tr) : tr[j].name = fallback_order[i]
    THEN FallbackLoopSkipsTried(i + 1, tr, transcript, prompt)
    ELSE UNION {IF t.done
                THEN {[result |-> ReturnValue(t.value), trace |-> tr \o t.events]}
                ELSE FallbackLoopSkipsTried(i + 1, tr \o t.events, transcript, prompt) :
                  t \in TryAdapter(i, fallback_order[i], transcript, prompt)}

\* the for loop over self.fallback_order from index i on, after the events tr;
\* the set of possible [result, trace] of the call
RECURSIVE FallbackLoop(_, _, _, _)
FallbackLoop(i, tr, transcript, prompt) ==
    IF i > Len(fallback_order)
    THEN {[result |-> Raise("RuntimeError", ExhaustionMessage), trace |-> tr]}
    ELSE IF ~Registered(fallback_order[i])
    THEN FallbackLoop(i + 1, tr, transcript, prompt)
    ELSE UNION {IF t.done
                THEN {[result |-> ReturnValue(t.value), trace |-> tr \o t.events]}
                ELSE FallbackLoop(i + 1, tr \o t.events, transcript, prompt) :
                  t \in TryAdapter(i, fallback_order[i], transcript, prompt)}

\* the primary block without its return: the walk goes on after a success
PrimaryBlockNoReturn(transcript, prompt) ==
    IF Truthy(current_adapter) /\ Registered(current_adapter)
    THEN UNION {FallbackLoop(1, t.events, transcript, prompt) :
                  t \in TryAdapter(0, current_adapter, transcript, prompt)}
    ELSE FallbackLoop(1, <<>>, transcript, prompt)

\* the primary block treating a degraded document as a failure
PrimaryBlockPrefersSummary(transcript, prompt) ==
    IF Truthy(current_adapter) /\ Registered(current_adapter)
    THEN UNION {IF t.done /\ t.value.origin # "template"
                THEN {[result |-> ReturnValue(t.value), trace |-> t.events]}
                ELSE FallbackLoop(1, t.events, transcript, prompt) :
                  t \in TryAdapter(0, current_adapter, transcript, prompt)}
    ELSE FallbackLoop(1, <<>>, transcript, prompt)

\* the block that tries self.current_adapter first
PrimaryBlock(transcript, prompt) ==
    IF Truthy(current_adapter) /\ Registered(current_adapter)
    THEN UNION {IF t.done
                THEN {[result |-> ReturnValue(t.value), trace |-> t.events]}
                ELSE FallbackLoop(1, t.events, transcript, prompt) :
                  t \in TryAdapter(0, current_adapter, transcript, prompt)}
    ELSE FallbackLoop(1, <<>>, transcript, prompt)

\* a manager is at hand unless the factory has just failed
HaveManager == ~(op = "create_ai_service_manager" /\ result.raised)

\* the lists handed to set_fallback_order: the orders without repetition and
\* the orders that name one adapter twice
FallbackOrders ==
    {s \in SeqsUpTo(Names, MaxFallback) :
        \A i, j \in 1..Len(s) : s[i] = s[j] => i = j}
    \cup {<<n, n>> : n \in Names}

Init ==
    /\ adapters = [n \in Names |-> None]
    /\ current_adapter = None
    /\ fallback_order = <<>>
    /\ op = "init"
    /\ args = <<>>
    /\ result = ReturnValue(NoValue)
    /\ trace = <<>>

\* AIServiceManager(): a fresh manager
NewManager ==
    /\ adapters' = [n \in Names |-> None]
    /\ current_adapter' = None
    /\ fallback_order' = <<>>
    /\ op' = "init"
    /\ args' = <<>>
    /\ result' = ReturnValue(NoValue)
    /\ trace' = <<>>

\* registration that keeps an entry already present (dict.setdefault)
RegisterAdapterKeepFirst(reg, name, adapter) ==
    IF reg[name] # None THEN reg ELSE [reg EXCEPT ![name] = adapter]

\* self.adapters[name] = adapter
RegisterAdapterUpdate(reg, name, adapter) == [reg EXCEPT ![name] = adapter]

RegisterAdapter(name, adapter) ==
    /\ HaveManager
    /\ adapters' = RegisterAdapterUpdate(adapters, name, adapter)
    /\ op' = "register_adapter"
    /\ args' = [name |-> name, adapter |-> adapter, before |-> adapters[name]]
    /\ result' = ReturnValue(NoValue)
    /\ trace' = <<>>
    /\ UNCHANGED <<current_adapter, fallback_order>>

\* set_primary_adapter assigning before it checks the registry
SetPrimaryOutcomeAssignsFirst(reg, cur, name) ==
    IF name \in Names /\ reg[name] # None
    THEN [current |-> name, result |-> ReturnValue(NoValue)]
    ELSE [current |-> name,
          result |-> Raise("ValueError", MissingAdapterMessage(name))]

\* set_primary_adapter without the test of the registry
SetPrimaryOutcomeUnchecked(reg, cur, name) ==
    [current |-> name, result |-> ReturnValue(NoValue)]

\* set_primary_adapter(name) on a manager with registry reg and primary cur:
\* the primary afterwards and what the call returns or raises
SetPrimaryOutcome(reg, cur, name) ==
    IF name \in Names /\ reg[name] # None
    THEN [current |-> name, result |-> ReturnValue(NoValue)]
    ELSE [current |-> cur,
          result |-> Raise("ValueError", MissingAdapterMessage(name))]

SetPrimaryAdapter(name) ==
    /\ HaveManager
    /\ current_adapter' = SetPrimaryOutcome(adapters, current_adapter, name).current
    /\ op' = "set_primary_adapter"
    /\ args' = [name |-> name]
    /\ result' = SetPrimaryOutcome(adapters, current_adapter, name).result
    /\ trace' = <<>>
    /\ UNCHANGED <<adapters, fallback_order>>

SetFallbackOrder(order) ==
    /\ HaveManager
    /\ fallback_order' = order
    /\ op' = "set_fallback_order"
    /\ args' = [order |-> order]
    /\ result' = ReturnValue(NoValue)
    /\ trace' = <<>>
    /\ UNCHANGED <<adapters, current_adapter>>

\* generate_summary_with_fallback dropping a primary that did not answer
GenerateSummaryWithFallbackDemotes(transcript, prompt) ==
    /\ HaveManager
    /\ \E r \in PrimaryBlock(transcript, prompt) :
          /\ result' = r.result
          /\ trace' = r.trace
          /\ current_adapter' =
                IF r.trace # <<>> /\ r.trace[1].slot = 0
                     /\ ~(Len(r.trace) = 2 /\ r.trace[2].ok)
                THEN None ELSE current_adapter
    /\ op' = "generate_summary_with_fallback"
    /\ args' = [transcript |-> transcript, prompt |-> prompt]
    /\ UNCHANGED <<adapters, fallback_order>>

GenerateSummaryWithFallback(transcript, prompt) ==
    /\ HaveManager
    /\ \E r \in PrimaryBlock(transcript, prompt) :
          /\ result' = r.result
          /\ trace' = r.trace
    /\ op' = "generate_summary_with_fallback"
    /\ args' = [transcript |-> transcript, prompt |-> prompt]
    /\ UNCHANGED <<adapters, current_adapter, fallback_order>>

\* get_model_info(): static metadata of an adapter class
GetModelInfo(kind) ==
    IF kind = "OpenAIAdapter" THEN [provider |-> "OpenAI", type |-> "cloud"]
    ELSE IF kind = "LocalModelAdapter" THEN [provider |-> "Local", type |-> "local"]
    ELSE [provider |-> "Baidu", type |-> "cloud"]

\* get_available_adapters answering from the snapshot of the previous call
\* for the names that were registered then
AvailableAdaptersInfoCached(probe) ==
    [n \in Names |->
        IF Registered(n)
        THEN [registered |-> TRUE, info |-> GetModelInfo(adapters[n]),
              available |-> IF op = "get_available_adapters" /\ result.value.info[n].registered
                            THEN result.value.info[n].available
                            ELSE probe[n]]
        ELSE [registered |-> FALSE, info |-> GetModelInfo(None), available |-> FALSE]]

\* the dict built by get_available_adapters when is_available() of the adapter
\* registered under n answers probe[n]; None for a name that is no key
AvailableAdaptersInfo(probe) ==
    [n \in Names |->
        IF Registered(n)
        THEN [registered |-> TRUE, info |-> GetModelInfo(adapters[n]), available |-> probe[n]]
        ELSE [registered |-> FALSE, info |-> GetModelInfo(None), available |-> FALSE]]

GetAvailableAdapters(probe) ==
    /\ HaveManager
    /\ \A n \in Names : ~Registered(n) => ~probe[n]
    /\ op' = "get_available_adapters"
    /\ args' = [probe |-> probe]
    /\ result' = ReturnValue([type |-> "info", info |-> AvailableAdaptersInfo(probe)])
    /\ trace' = <<>>
    /\ UNCHANGED <<adapters, current_adapter, fallback_order>>

(***************************************************************************)
(* create_ai_service_manager(config).  config.enabled is the set of        *)
(* providers whose "enabled" entry is true; primary_adapter and            *)
(* fallback_order are None / OrderAbsent when the key is absent.  ctor_fail is the set   *)
(* of providers whose adapter constructor raises (missing library, model   *)
(* that does not load, token request refused).                             *)
(***************************************************************************)
\* the order in which the factory looks at the providers
FactoryOrder == <<"openai", "local_model", "baidu">>

\* the adapter class the factory builds for a provider
ProviderAdapter(name) ==
    IF name = "openai" THEN "OpenAIAdapter"
    ELSE IF name = "local_model" THEN "LocalModelAdapter"
    ELSE "BaiduAIAdapter"

DefaultPrimary == "openai"

DefaultFallbackOrder == <<"local_model", "baidu">>

\* config.get(key, default) for a key whose value, when present, is a name
ConfigGet(value, default) == IF value = None THEN default ELSE value

\* a fallback_order entry of the config: absent, or the given list
OrderAbsent == [given |-> FALSE, order |-> <<>>]

OrderGiven(order) == [given |-> TRUE, order |-> order]

\* config.get("fallback_order", default)
ConfigGetOrder(entry, default) == IF entry.given THEN entry.order ELSE default

\* the three "if enabled: construct and register" blocks from block i on
RECURSIVE RegisterEnabled(_, _, _, _)
RegisterEnabled(i, reg, enabled, ctor_fail) ==
    IF i > Len(FactoryOrder) THEN [ok |-> TRUE, reg |-> reg]
    ELSE LET name == FactoryOrder[i]
         IN  IF name \notin enabled
             THEN RegisterEnabled(i + 1, reg, enabled, ctor_fail)
             ELSE IF name \in ctor_fail
             THEN [ok |-> FALSE, reg |-> reg]
             ELSE RegisterEnabled(i + 1, RegisterAdapterUpdate(reg, name, ProviderAdapter(name)),
                                  enabled, ctor_fail)

\* the factory swallowing the error of set_primary_adapter: the manager is
\* returned without a primary
CreateOutcomeDeferred(config, ctor_fail) ==
    LET built == RegisterEnabled(1, [n \in Names |-> None], config.enabled, ctor_fail)
        primary == ConfigGet(config.primary_adapter, DefaultPrimary)
        order == ConfigGetOrder(config.fallback_order, DefaultFallbackOrder)
        sp == SetPrimaryOutcome(built.reg, None, primary)
    IN  IF ~built.ok
        THEN [adapters |-> built.reg, current |-> None, fallback |-> <<>>,
              result |-> Raise("AdapterInitError", <<>>)]
        ELSE [adapters |-> built.reg, current |-> sp.current, fallback |-> order,
              result |-> ReturnValue([type |-> "manager"])]

\* the manager the factory has built when it returns or raises, and the
\* outcome of the factory
CreateOutcome(config, ctor_fail) ==
    LET built == RegisterEnabled(1, [n \in Names |-> None], config.enabled, ctor_fail)
        primary == ConfigGet(config.primary_adapter, DefaultPrimary)
        order == ConfigGetOrder(config.fallback_order, DefaultFallbackOrder)
        sp == SetPrimaryOutcome(built.reg, None, primary)
    IN  IF ~built.ok
        THEN [adapters |-> built.reg, current |-> None, fallback |-> <<>>,
              result |-> Raise("AdapterInitError", <<>>)]
        ELSE IF sp.result.raised
        THEN [adapters |-> built.reg, current |-> None, fallback |-> <<>>,
              result |-> sp.result]
        ELSE [adapters |-> built.reg, current |-> sp.current, fallback |-> order,
              result |-> ReturnValue([type |-> "manager"])]

Configs ==
    [enabled : SUBSET Names,
     primary_adapter : Names \cup {None},
     fallback_order : {OrderGiven(o) : o \in FallbackOrders} \cup {OrderAbsent}]

\* the factory builds its own manager from nothing
CreateAIServiceManager(config, ctor_fail) ==
    /\ adapters' = CreateOutcome(config, ctor_fail).adapters
    /\ current_adapter' = CreateOutcome(config, ctor_fail).current
    /\ fallback_order' = CreateOutcome(config, ctor_fail).fallback
    /\ op' = "create_ai_service_manager"
    /\ args' = [config |-> config, ctor_fail |-> ctor_fail]
    /\ result' = CreateOutcome(config, ctor_fail).result
    /\ trace' = <<>>

Next ==
    \/ NewManager
    \/ \E name \in Names, adapter \in AdapterKinds : RegisterAdapter(name, adapter)
    \/ \E name \in Names : SetPrimaryAdapter(name)
    \/ \E order \in FallbackOrders : SetFallbackOrder(order)
    \/ \E transcript \in Transcripts, prompt \in Prompts :
          GenerateSummaryWithFallback(transcript, prompt)
    \/ \E probe \in [Names -> BOOLEAN] : GetAvailableAdapters(probe)
    \/ /\ op = "init"
       /\ \E config \in Configs : \E ctor_fail \in SUBSET config.enabled :
             CreateAIServiceManager(config, ctor_fail)

Spec == Init /\ [][Next]_vars

(***************************************************************************)
(* The adapters on their own: generate_summary of one adapter called with  *)
(* a transcript and a prompt against some behaviour of its backend.        *)
(***************************************************************************)
\* longest transcript, in characters, handed to an adapter directly
MaxTranscript == 2

AdapterTranscripts == SeqsUpTo({"a", NL}, MaxTranscript) \cup {TranscriptSixLines}

\* what a direct call of generate_summary returns or raises
AdapterCallResult(kind, transcript, prompt, be) ==
    LET out == GenerateSummary(kind, transcript, prompt, be)
    IN  IF out.ok THEN ReturnValue(out.val) ELSE Raise("Exception", <<>>)

AdapterGenerateSummary(kind, transcript, prompt, be) ==
    /\ op' = "generate_summary"
    /\ args' = [kind |-> kind, transcript |-> transcript, prompt |-> prompt, be |-> be]
    /\ result' = AdapterCallResult(kind, transcript, prompt, be)
    /\ trace' = <<>>
    /\ UNCHANGED <<adapters, current_adapter, fallback_order>>

\* the backend is reached only when the prompt could be rendered
AdapterBackends(kind, transcript, prompt) ==
    IF PromptFormat(prompt, transcript).ok THEN BackendOutcomes(kind, Bodies) ELSE {NotCalled}

\* a direct call of the degradation template of an adapter class
AdapterCreateFallbackSummary(kind, transcript) ==
    /\ op' = "create_fallback_summary"
    /\ args' = [kind |-> kind, transcript |-> transcript]
    /\ result' = ReturnValue(DegradationTemplate(kind, transcript))
    /\ trace' = <<>>
    /\ UNCHANGED <<adapters, current_adapter, fallback_order>>

\* a direct call of is_available on an adapter whose fields are st
AdapterIsAvailable(kind, st) ==
    /\ op' = "is_available"
    /\ args' = [kind |-> kind, st |-> st]
    /\ result' = (IF IsAvailable(kind, st).ok
                  THEN ReturnValue(IsAvailable(kind, st).val)
                  ELSE Raise("Exception", <<>>))
    /\ trace' = <<>>
    /\ UNCHANGED <<adapters, current_adapter, fallback_order>>

AdapterNext ==
    \/ \E kind \in AdapterKinds, transcript \in AdapterTranscripts, prompt \in AdapterPrompts :
          \E be \in AdapterBackends(kind, transcript, prompt) :
             AdapterGenerateSummary(kind, transcript, prompt, be)
    \/ \E kind \in AdapterKinds : \E st \in AdapterStates(kind) :
          AdapterIsAvailable(kind, st)
    \/ \E kind \in AdapterKinds, transcript \in AdapterTranscripts :
          AdapterCreateFallbackSummary(kind, transcript)

SpecAdapter == Init /\ [][AdapterNext]_vars

(***************************************************************************)
(* ContextOptimizer (context_optimizer.py).  A str is a sequence of        *)
(* characters; an ASCII character is written as itself, any other          *)
(* character as "u" followed by its code point in hexadecimal, so          *)
(* <<"u9879", "u76ee">> is the word U+9879 U+76EE ("project").             *)
(***************************************************************************)
\* self.industry_keywords: the vocabulary of each industry
industry_keywords ==
    [tech |->
        << <<"u654f", "u6377", "u5f00", "u53d1">>, <<"u8fed", "u4ee3">>,
           <<"M", "V", "P">>, <<"u6280", "u672f", "u6808">>,
           <<"u67b6", "u6784">>, <<"u90e8", "u7f72">>, <<"u6d4b", "u8bd5">>,
           <<"u4e0a", "u7ebf">> >>,
     finance |->
        << <<"R", "O", "I">>, <<"u9884", "u7b97">>, <<"u6210", "u672c">>,
           <<"u6536", "u76ca">>, <<"u98ce", "u9669">>, <<"u6295", "u8d44">>,
           <<"u56de", "u62a5", "u7387">>, <<"u73b0", "u91d1", "u6d41">> >>,
     manufacturing |->
        << <<"u4ea7", "u80fd">>, <<"u4f9b", "u5e94", "u94fe">>,
           <<"u8d28", "u91cf", "u63a7", "u5236">>,
           <<"u6210", "u672c", "u4f18", "u5316">>,
           <<"u751f", "u4ea7", "u6548", "u7387">>, <<"u8bbe", "u5907">> >>,
     healthcare |->
        << <<"u5408", "u89c4">>, <<"u4e34", "u5e8a", "u8bd5", "u9a8c">>,
           <<"u76d1", "u7ba1">>, <<"u5b89", "u5168", "u6027">>,
           <<"u6709", "u6548", "u6027">>, <<"F", "D", "A">> >>]

\* self.meeting_templates: focus areas and keyword patterns per meeting type
meeting_templates ==
    [project_review |->
        [focus_areas |->
           << <<"u8fdb", "u5ea6">>, <<"u98ce", "u9669">>,
              <<"u8d44", "u6e90">>,
              <<"u4e0b", "u4e00", "u6b65", "u8ba1", "u5212">> >>,
         decision_patterns |->
           << <<"u6279", "u51c6">>, <<"u540c", "u610f">>,
              <<"u51b3", "u5b9a">>, <<"u786e", "u8ba4">> >>,
         action_patterns |->
           << <<"u8d1f", "u8d23">>, <<"u5b8c", "u6210">>,
              <<"u63d0", "u4ea4">>, <<"u8ddf", "u8fdb">> >>],
     weekly_meeting |->
        [focus_areas |->
           << <<"u672c", "u5468", "u5de5", "u4f5c">>,
              <<"u4e0b", "u5468", "u8ba1", "u5212">>, <<"u95ee", "u9898">>,
              <<"u534f", "u8c03">> >>,
         decision_patterns |->
           << <<"u5b89", "u6392">>, <<"u8c03", "u6574">>,
              <<"u534f", "u8c03">>, <<"u786e", "u8ba4">> >>,
         action_patterns |->
           << <<"u5b8c", "u6210">>, <<"u8ddf", "u8fdb">>,
              <<"u6c47", "u62a5">>, <<"u5904", "u7406">> >>],
     strategic_planning |->
        [focus_areas |->
           << <<"u6218", "u7565">>, <<"u76ee", "u6807">>,
              <<"u65b9", "u5411">>, <<"u6295", "u8d44">> >>,
         decision_patterns |->
           << <<"u51b3", "u5b9a">>, <<"u786e", "u5b9a">>,
              <<"u6279", "u51c6">>, <<"u901a", "u8fc7">> >>,
         action_patterns |->
           << <<"u5236", "u5b9a">>, <<"u8c03", "u7814">>,
              <<"u5206", "u6790">>, <<"u63d0", "u4ea4">> >>]]

\* the keyword lists of _detect_meeting_type, in the order they are tested
MeetingTypeKeywords ==
    <<[type |-> "project_review", words |->
          << <<"u9879", "u76ee">>, <<"u8fdb", "u5ea6">>,
             <<"u91cc", "u7a0b", "u7891">>, <<"u4ea4", "u4ed8">>,
             <<"u5ef6", "u671f">> >>],
      [type |-> "weekly_meeting", words |->
          << <<"u672c", "u5468">>, <<"u4e0b", "u5468">>, <<"u4f8b", "u4f1a">>,
             <<"u65e5", "u5e38", "u5de5", "u4f5c">> >>],
      [type |-> "strategic_planning", words |->
          << <<"u6218", "u7565">>, <<"u89c4", "u5212">>, <<"u76ee", "u6807">>,
             <<"u6295", "u8d44">>, <<"u65b9", "u5411">> >>]>>

\* the keyword lists of _detect_industry, in the order they are tested
IndustryDetectKeywords ==
    <<[type |-> "tech", words |->
          << <<"u5f00", "u53d1">>, <<"u4ee3", "u7801">>, <<"u6d4b", "u8bd5">>,
             <<"u90e8", "u7f72">>, <<"u67b6", "u6784">>, <<"u654f", "u6377">>,
             <<"u8fed", "u4ee3">> >>],
      [type |-> "finance", words |->
          << <<"u6295", "u8d44">>, <<"u9884", "u7b97">>, <<"R", "O", "I">>,
             <<"u6210", "u672c">>, <<"u6536", "u76ca">>, <<"u98ce", "u9669">>,
             <<"u73b0", "u91d1", "u6d41">> >>],
      [type |-> "manufacturing", words |->
          << <<"u751f", "u4ea7">>, <<"u4ea7", "u80fd">>,
             <<"u4f9b", "u5e94", "u94fe">>, <<"u8bbe", "u5907">>,
             <<"u8d28", "u91cf", "u63a7", "u5236">> >>],
      [type |-> "healthcare", words |->
          << <<"u4e34", "u5e8a">>, <<"u533b", "u7597">>, <<"u5408", "u89c4">>,
             <<"F", "D", "A">>, <<"u5b89", "u5168", "u6027">>,
             <<"u6709", "u6548", "u6027">> >>]>>


\* str.lower() changes the ASCII capitals among the characters used here
UpperToLower ==
    [A |-> "a", B |-> "b", C |-> "c", D |-> "d", E |-> "e", F |-> "f", G |-> "g",
     H |-> "h", I |-> "i", J |-> "j", K |-> "k", L |-> "l", M |-> "m", N |-> "n",
     O |-> "o", P |-> "p", Q |-> "q", R |-> "r", S |-> "s", T |-> "t", U |-> "u",
     V |-> "v", W |-> "w", X |-> "x", Y |-> "y", Z |-> "z"]

LowerChar(c) == IF c \in DOMAIN UpperToLower THEN UpperToLower[c] ELSE c

Lower(s) == [i \in 1..Len(s) |-> LowerChar(s[i])]

\* word in s, for two strs
Contains(s, word) ==
    \E i \in 0..(Len(s) - Len(word)) : SubSeq(s, i + 1, i + Len(word)) = word

\* any(word in s for word in words)
AnyWordIn(words, s) == \E i \in 1..Len(words) : Contains(s, words[i])

\* x in seq, for a list
InList(x, seq) == \E i \in 1..Len(seq) : seq[i] = x

\* the chain "if any(...): return type" over the entries of table from entry i
\* on, ending in "return default"
RECURSIVE FirstMatch(_, _, _, _)
FirstMatch(table, i, s, default) ==
    IF i > Len(table) THEN default
    ELSE IF AnyWordIn(table[i].words, s) THEN table[i].type
    ELSE FirstMatch(table, i + 1, s, default)

\* _detect_meeting_type testing the strategic-planning words first
DetectMeetingTypeStrategicFirst(transcript) ==
    FirstMatch(<<MeetingTypeKeywords[3], MeetingTypeKeywords[2], MeetingTypeKeywords[1]>>,
               1, Lower(transcript), "general_meeting")

\* _detect_meeting_type
DetectMeetingType(transcript) ==
    FirstMatch(MeetingTypeKeywords, 1, Lower(transcript), "general_meeting")

\* _detect_industry: the words are looked up in the lower-cased transcript
DetectIndustry(transcript) ==
    FirstMatch(IndustryDetectKeywords, 1, Lower(transcript), "general")

\* the characters of the transcripts that \w does not match
Separators == {" ", NL, ":", "[", "]", ","}

IsWordChar(c) == c \notin Separators

\* re.findall(r'\b\w+\b', s): the maximal runs of word characters, in order.
\* A run starts at a word character that follows no word character and ends
\* at the last word character before a separator or the end of s.
WordStarts(s) == {i \in 1..Len(s) : IsWordChar(s[i]) /\ (i = 1 \/ ~IsWordChar(s[i - 1]))}

WordEnd(s, i) ==
    CHOOSE j \in i..Len(s) :
        /\ \A m \in i..j : IsWordChar(s[m])
        /\ j = Len(s) \/ ~IsWordChar(s[j + 1])

FindAllWords(s) ==
    LET starts == WordStarts(s)
        nth(k) == CHOOSE i \in starts : Cardinality({j \in starts : j < i}) = k - 1
    IN  [k \in 1..Cardinality(starts) |-> SubSeq(s, nth(k), WordEnd(s, nth(k)))]

\* the counting loop keeping every word of two characters or more
RECURSIVE WordFreqKeysTwoChars(_, _)
WordFreqKeysTwoChars(words, keys) ==
    IF words = <<>> THEN keys
    ELSE WordFreqKeysTwoChars(Tail(words),
                      IF Len(Head(words)) > 1 /\ ~InList(Head(words), keys)
                      THEN Append(keys, Head(words)) ELSE keys)

\* the keys of word_freq in insertion order: the words longer than two
\* characters, each at its first occurrence
RECURSIVE WordFreqKeys(_, _)
WordFreqKeys(words, keys) ==
    IF words = <<>> THEN keys
    ELSE WordFreqKeys(Tail(words),
                      IF Len(Head(words)) > 2 /\ ~InList(Head(words), keys)
                      THEN Append(keys, Head(words)) ELSE keys)

\* word_freq[w]
WordFreq(words, w) == Cardinality({i \in 1..Len(words) : words[i] = w})

\* sorted(word_freq.items(), key=frequency, reverse=True): by falling
\* frequency, words of equal frequency in insertion order
RECURSIVE SortedByFreq(_, _)
SortedByFreq(keys, words) ==
    IF keys = <<>> THEN <<>>
    ELSE LET best == CHOOSE i \in 1..Len(keys) :
                        \A j \in 1..Len(keys) :
                            /\ WordFreq(words, keys[j]) <= WordFreq(words, keys[i])
                            /\ j < i => WordFreq(words, keys[j]) < WordFreq(words, keys[i])
         IN  <<keys[best]>>
               \o SortedByFreq(SubSeq(keys, 1, best - 1) \o SubSeq(keys, best + 1, Len(keys)),
                               words)

\* the loop "if word in transcript and word not in keywords:
\* keywords.insert(0, word)" from word i of the industry's vocabulary on
RECURSIVE AddIndustryWords(_, _, _, _)
AddIndustryWords(i, industry_words, transcript, keywords) ==
    IF i > Len(industry_words) THEN keywords
    ELSE AddIndustryWords(i + 1, industry_words, transcript,
             IF Contains(transcript, industry_words[i]) /\ ~InList(industry_words[i], keywords)
             THEN <<industry_words[i]>> \o keywords ELSE keywords)

\* _extract_keywords
ExtractKeywords(transcript, industry) ==
    LET words == FindAllWords(transcript)
        keywords == Take(SortedByFreq(WordFreqKeys(words, <<>>), words), 20)
    IN  Take(IF industry \in DOMAIN industry_keywords
             THEN AddIndustryWords(1, industry_keywords[industry], transcript, keywords)
             ELSE keywords, 15)

\* meeting_info: a dict with or without "participants" and "duration"
MeetingInfoEmpty == [given |-> FALSE, participants |-> <<>>, duration |-> 0]

MeetingInfoGiven == [given |-> TRUE, participants |-> <<"A", "B">>, duration |-> 30]

\* analyze_meeting_context: the MeetingContext it returns
MeetingContext(transcript, meeting_info) ==
    [type |-> "MeetingContext",
     meeting_type |-> DetectMeetingType(transcript),
     industry |-> DetectIndustry(transcript),
     participants |-> IF meeting_info.given THEN meeting_info.participants ELSE <<>>,
     duration |-> IF meeting_info.given THEN meeting_info.duration ELSE 60,
     keywords |-> ExtractKeywords(transcript, DetectIndustry(transcript))]

(***************************************************************************)
(* post_process_summary.  A summary is the dict returned by the manager:   *)
(* key_points, decisions and action_items are lists of dicts.  A tag       *)
(* (importance, urgency, priority) is "missing" when the dict has no such  *)
(* key.  A deadline is absent, a str, or a value that is no str.           *)
(***************************************************************************)
Missing == "missing"

\* a deadline entry of an action item
DeadlineMissing == [given |-> FALSE, kind |-> "str", text |-> <<>>]

DeadlineText(text) == [given |-> TRUE, kind |-> "str", text |-> text]

\* the words that raise a key point under project_review / strategic_planning
ProjectReviewWords == << <<"u98ce", "u9669">>, <<"u5ef6", "u671f">>, <<"u963b", "u585e">> >>

StrategicPlanningWords == << <<"u6295", "u8d44">>, <<"u6218", "u7565">>, <<"u65b9", "u5411">> >>

\* the words of the deadline tests
HighDeadlineWords == << <<"u672c", "u5468">>, <<"u660e", "u5929">>, <<"u4eca", "u5929">> >>

MediumDeadlineWords == << <<"u4e0b", "u5468">>, <<"u6708", "u5e95">> >>

\* high_impact_words
HighImpactWords ==
    << <<"u6279", "u51c6">>, <<"u540c", "u610f">>, <<"u51b3", "u5b9a">>, <<"u786e", "u5b9a">>,
       <<"u901a", "u8fc7">>, <<"u6295", "u8d44">>, <<"u9884", "u7b97">> >>

\* the body of the loop of _adjust_priority_by_meeting_type with the test of
\* the meeting type left out
AdjustPointAnyMeeting(point, meeting_type) ==
    IF AnyWordIn(ProjectReviewWords, point.content)
    THEN [point EXCEPT !.importance = "high"]
    ELSE IF AnyWordIn(StrategicPlanningWords, point.content)
    THEN [point EXCEPT !.importance = "high"]
    ELSE point

\* the body of the loop of _adjust_priority_by_meeting_type
AdjustPoint(point, meeting_type) ==
    IF meeting_type = "project_review"
    THEN IF AnyWordIn(ProjectReviewWords, point.content)
         THEN [point EXCEPT !.importance = "high"] ELSE point
    ELSE IF meeting_type = "strategic_planning"
    THEN IF AnyWordIn(StrategicPlanningWords, point.content)
         THEN [point EXCEPT !.importance = "high"] ELSE point
    ELSE point

\* _adjust_priority_by_meeting_type
AdjustPriorityByMeetingType(summary, context) ==
    [summary EXCEPT !.key_points =
        [i \in 1..Len(summary.key_points) |->
            AdjustPoint(summary.key_points[i], context.meeting_type)]]

\* the body of the loop of _add_time_sensitivity testing "next week" and
\* "end of month" before "this week", "tomorrow", "today"
AddTimeSensitivityToMediumFirst(action) ==
    IF ~action.deadline.given THEN action
    ELSE IF action.deadline.kind # "str" THEN [action EXCEPT !.priority = "medium"]
    ELSE IF action.deadline.text = <<>> THEN action
    ELSE IF AnyWordIn(MediumDeadlineWords, action.deadline.text)
    THEN [action EXCEPT !.priority = "medium"]
    ELSE IF AnyWordIn(HighDeadlineWords, action.deadline.text)
    THEN [action EXCEPT !.priority = "high"]
    ELSE [action EXCEPT !.priority = "low"]

\* the body of the loop of _add_time_sensitivity: action.get("deadline", ""),
\* nothing for a false value; "in" on a value that is no str raises, which
\* the bare except turns into medium
AddTimeSensitivityTo(action) ==
    IF ~action.deadline.given THEN action
    ELSE IF action.deadline.kind # "str" THEN [action EXCEPT !.priority = "medium"]
    ELSE IF action.deadline.text = <<>> THEN action
    ELSE IF AnyWordIn(HighDeadlineWords, action.deadline.text)
    THEN [action EXCEPT !.priority = "high"]
    ELSE IF AnyWordIn(MediumDeadlineWords, action.deadline.text)
    THEN [action EXCEPT !.priority = "medium"]
    ELSE [action EXCEPT !.priority = "low"]

\* _add_time_sensitivity leaving out the action items that have no deadline
AddTimeSensitivityDropsUndated(summary) ==
    [summary EXCEPT !.action_items =
        LET dated == SelectSeq(summary.action_items, LAMBDA a : a.deadline.given)
        IN  [i \in 1..Len(dated) |-> AddTimeSensitivityTo(dated[i])]]

\* _add_time_sensitivity
AddTimeSensitivity(summary) ==
    [summary EXCEPT !.action_items =
        [i \in 1..Len(summary.action_items) |-> AddTimeSensitivityTo(summary.action_items[i])]]

\* importance_score with the two weights exchanged
DecisionScoreSwapped(content, meeting_type) ==
    (IF meeting_type \in DOMAIN meeting_templates
          /\ AnyWordIn(meeting_templates[meeting_type].decision_patterns, content)
     THEN 1 ELSE 0)
    + (IF AnyWordIn(HighImpactWords, content) THEN 2 ELSE 0)

\* importance_score of a decision
DecisionScore(content, meeting_type) ==
    (IF meeting_type \in DOMAIN meeting_templates
          /\ AnyWordIn(meeting_templates[meeting_type].decision_patterns, content)
     THEN 2 ELSE 0)
    + (IF AnyWordIn(HighImpactWords, content) THEN 1 ELSE 0)

\* the tag the loop of _identify_key_decisions writes on a decision
ScoreDecision(decision, meeting_type) ==
    [decision EXCEPT !.urgency =
        IF DecisionScore(decision.content, meeting_type) >= 2 THEN "high"
        ELSE IF DecisionScore(decision.content, meeting_type) >= 1 THEN "medium"
        ELSE "low"]

\* _identify_key_decisions extending the shortlist already in the summary
IdentifyKeyDecisionsExtends(summary, context) ==
    LET scored == [i \in 1..Len(summary.decisions) |->
                      ScoreDecision(summary.decisions[i], context.meeting_type)]
        key_decisions == SelectSeq(scored,
                            LAMBDA d : DecisionScore(d.content, context.meeting_type) >= 2)
    IN  [summary EXCEPT !.decisions = scored,
                        !.key_decisions = IF key_decisions # <<>>
                                          THEN [given |-> TRUE,
                                                items |-> Take(@.items \o key_decisions, 3)]
                                          ELSE @]

\* _identify_key_decisions: summary["key_decisions"] is written only when the
\* shortlist is not empty
IdentifyKeyDecisions(summary, context) ==
    LET scored == [i \in 1..Len(summary.decisions) |->
                      ScoreDecision(summary.decisions[i], context.meeting_type)]
        key_decisions == SelectSeq(scored,
                            LAMBDA d : DecisionScore(d.content, context.meeting_type) >= 2)
    IN  [summary EXCEPT !.decisions = scored,
                        !.key_decisions = IF key_decisions # <<>>
                                          THEN [given |-> TRUE, items |-> Take(key_decisions, 3)]
                                          ELSE @]

\* post_process_summary
PostProcessSummary(summary, context) ==
    IdentifyKeyDecisions(
        AddTimeSensitivity(
            AdjustPriorityByMeetingType(
                [summary EXCEPT !.industry = context.industry,
                                !.meeting_type = context.meeting_type],
                context)),
        context)

(***************************************************************************)
(* optimize_summary_prompt.  The prompt is an f-string: every {expression} *)
(* is replaced by its value when the prompt is built, and every {{ and }}  *)
(* leaves a single brace in the prompt.  The prompt is written as the      *)
(* parts str.format reads in it: the first brace of the JSON example opens *)
(* a replacement field whose name is the text up to the next colon, the    *)
(* quoted word title.                                                      *)
(***************************************************************************)
\* sep.join(texts) for a separator of any length
RECURSIVE JoinWith(_, _)
JoinWith(sep, texts) ==
    IF texts = <<>> THEN <<>>
    ELSE IF Len(texts) = 1 THEN texts[1]
    ELSE texts[1] \o sep \o JoinWith(sep, Tail(texts))

\* _get_focus_areas
GetFocusAreas(meeting_type) ==
    IF meeting_type \in DOMAIN meeting_templates
    THEN JoinWith(<<"u3001">>, meeting_templates[meeting_type].focus_areas)
    ELSE <<"u8ba8", "u8bba", "u8981", "u70b9", "u3001", "u51b3", "u7b56", "u4e8b", "u9879",
           "u3001", "u540e", "u7eed", "u884c", "u52a8">>

\* _get_decision_keywords
GetDecisionKeywords(meeting_type) ==
    IF meeting_type \in DOMAIN meeting_templates
    THEN JoinWith(<<"u3001">>, meeting_templates[meeting_type].decision_patterns)
    ELSE <<"u51b3", "u5b9a", "u3001", "u786e", "u5b9a", "u3001", "u540c", "u610f", "u3001", "u6279", "u51c6">>

\* _get_action_keywords
GetActionKeywords(meeting_type) ==
    IF meeting_type \in DOMAIN meeting_templates
    THEN JoinWith(<<"u3001">>, meeting_templates[meeting_type].action_patterns)
    ELSE <<"u8d1f", "u8d23", "u3001", "u5b8c", "u6210", "u3001", "u8ddf", "u8fdb", "u3001", "u5904", "u7406">>

\* _get_categories
GetCategories(meeting_type) ==
    IF meeting_type = "project_review"
    THEN <<"u8fdb", "u5ea6", "u66f4", "u65b0", "|", "u98ce", "u9669", "u8bc6", "u522b", "|",
           "u8d44", "u6e90", "u9700", "u6c42", "|", "u4e0b", "u4e00", "u6b65", "u8ba1", "u5212">>
    ELSE IF meeting_type = "weekly_meeting"
    THEN <<"u5de5", "u4f5c", "u6c47", "u62a5", "|", "u95ee", "u9898", "u8ba8", "u8bba", "|",
           "u534f", "u8c03", "u4e8b", "u9879", "|", "u4e0b", "u5468", "u5b89", "u6392">>
    ELSE IF meeting_type = "strategic_planning"
    THEN <<"u6218", "u7565", "u65b9", "u5411", "|", "u8d44", "u6e90", "u914d", "u7f6e", "|",
           "u6295", "u8d44", "u51b3", "u7b56", "|", "u957f", "u671f", "u89c4", "u5212">>
    ELSE <<"u4e00", "u822c", "u8ba8", "u8bba", "|", "u51b3", "u7b56", "u4e8b", "u9879", "|",
           "u884c", "u52a8", "u8ba1", "u5212">>

\* ', '.join(context.participants) if context.participants else the default
ParticipantsText(context) ==
    IF context.participants # <<>>
    THEN JoinWith(<<",", " ">>,
                  [i \in 1..Len(context.participants) |-> <<context.participants[i]>>])
    ELSE <<"u672a", "u6307", "u5b9a">>

\* optimize_summary_prompt: the transcript is written into the prompt when it
\* is built; no {transcript} field is left, the JSON example follows
OptimizeSummaryPrompt(transcript, context) ==
    <<Lit, Text(<<context.industry>>), Lit, Text(<<context.meeting_type>>),
      Lit, Text(<<context.meeting_type>>), Lit, Text(<<context.industry>>),
      Lit, Text(ParticipantsText(context)),
      Lit, Text(JoinWith(<<",", " ">>, Take(context.keywords, 10))),
      Lit, Text(GetFocusAreas(context.meeting_type)),
      Lit, Text(GetDecisionKeywords(context.meeting_type)),
      Lit, Text(GetActionKeywords(context.meeting_type)),
      Lit, Text(<<context.industry>>),
      Lit, Text(transcript),
      Lit, Field("title"), Lit, Text(<<context.meeting_type>>),
      Lit, Text(<<context.industry>>), Lit, Text(GetCategories(context.meeting_type)), Lit>>

(***************************************************************************)
(* The optimizer's functions applied to inputs: the initial state holds a  *)
(* pending call with its arguments, the action performs it.                *)
(***************************************************************************)
\* most keyword phrases written one after the other in a transcript
MaxPhrases == 2

\* most space-separated words in a transcript handed to keyword extraction
MaxWords == 3

\* the words of a keyword table
WordsOf(table) == UNION {{table[i].words[j] : j \in 1..Len(table[i].words)} : i \in 1..Len(table)}

\* texts joined by a separator character
RECURSIVE Join(_, _)
Join(sep, texts) ==
    IF texts = <<>> THEN <<>>
    ELSE IF Len(texts) = 1 THEN texts[1]
    ELSE texts[1] \o <<sep>> \o Join(sep, Tail(texts))

\* texts written one after the other
RECURSIVE Concat(_)
Concat(texts) == IF texts = <<>> THEN <<>> ELSE Head(texts) \o Concat(Tail(texts))

Digits == <<"0", "1", "2", "3", "4", "5", "6", "7", "8", "9">>

NumberedWord(k) == <<"w", Digits[(k \div 10) + 1], Digits[(k % 10) + 1]>>

\* a transcript of 21 different three-character words followed by three words
\* of the finance vocabulary
TranscriptManyWords ==
    Join(" ", [k \in 1..21 |-> NumberedWord(k)]
                \o << <<"u9884", "u7b97">>, <<"u56de", "u62a5", "u7387">>, <<"u6210", "u672c">> >>)

\* transcripts made of words of one, two, three and four characters,
\* separated by spaces
WordTranscripts ==
    {Join(" ", q) : q \in SeqsUpTo({<<"a">>, <<"a", "b">>, <<"a", "b", "c">>,
                                    <<"a", "b", "c", "d">>, <<"u9884", "u7b97">>,
                                    <<"u56de", "u62a5", "u7387">>}, MaxWords)}
    \cup {TranscriptManyWords}

\* the calls of analyze_meeting_context.  Without meeting_info: transcripts
\* that speak of meeting types (the keywords and a filler), transcripts that
\* speak of industries (the keywords, the lower-case spelling of an acronym
\* and a filler) and the word transcripts; with it: the word transcripts
AnalyzeCalls ==
    [fn : {"analyze_meeting_context"},
     transcript :
        {Concat(q) : q \in SeqsUpTo(WordsOf(MeetingTypeKeywords) \cup {<<"x">>}, MaxPhrases)}
        \cup {Concat(q) : q \in SeqsUpTo(WordsOf(IndustryDetectKeywords)
                                            \cup {<<"r", "o", "i">>, <<"x">>}, MaxPhrases)}
        \cup WordTranscripts,
     meeting_info : {MeetingInfoEmpty}]
    \cup [fn : {"analyze_meeting_context"}, transcript : WordTranscripts,
          meeting_info : {MeetingInfoGiven}]

\* most key points, decisions and action items of a summary
MaxPoints == 2

MaxDecisions == 4

MaxActions == 2

\* a filler and the words that raise a key point
KeyPoints ==
    [topic : {"topic"},
     content : {<<"x">>} \cup {ProjectReviewWords[i] : i \in 1..3}
                        \cup {StrategicPlanningWords[i] : i \in 1..3},
     importance : {Missing, "low"}]

\* a filler, a high-impact word that is no pattern ("budget"), a pattern that
\* is no high-impact word ("confirm"), and "we decide to approve this budget"
Decisions ==
    [content : {<<"x">>, <<"u9884", "u7b97">>, <<"u786e", "u8ba4">>,
                <<"u6211", "u4eec", "u51b3", "u5b9a", "u6279", "u51c6", "u8be5", "u9884", "u7b97">>},
     responsible : {"owner"}, urgency : {Missing}]
    \cup {[content |-> <<"x">>, responsible |-> "owner", urgency |-> "high"]}

\* no deadline, the empty one, "this Friday", "tomorrow", "today", "next
\* week", "end of month", "Friday", "next week, this week" and a number
Deadlines ==
    {DeadlineMissing, [given |-> TRUE, kind |-> "int", text |-> <<>>]}
    \cup {DeadlineText(t) : t \in
            {<<>>, <<"u672c", "u5468", "u4e94">>, <<"u660e", "u5929">>, <<"u4eca", "u5929">>,
             <<"u4e0b", "u5468">>, <<"u6708", "u5e95">>, <<"u5468", "u4e94">>,
             <<"u4e0b", "u5468", "u672c", "u5468">>}}

ActionItems == [task : {"task"}, deadline : Deadlines, priority : {Missing, "high"}]

\* a summary as the manager returns it, before post-processing
Summary(key_points, decisions, action_items) ==
    [type |-> "dict", title |-> "title", overview |-> "overview",
     key_points |-> key_points, decisions |-> decisions, action_items |-> action_items,
     risks |-> <<[description |-> "risk", severity |-> "high"],
                 [description |-> "risk", severity |-> "low"]>>,
     opportunities |-> <<[description |-> "opportunity", potential |-> "medium"]>>,
     industry |-> Missing, meeting_type |-> Missing,
     key_decisions |-> [given |-> FALSE, items |-> <<>>]]

Summaries ==
    {Summary(k, <<>>, <<>>) : k \in SeqsUpTo(KeyPoints, MaxPoints)}
    \cup {Summary(<<>>, d, <<>>) : d \in SeqsUpTo(Decisions, MaxDecisions)}
    \cup {Summary(<<>>, <<>>, a) : a \in SeqsUpTo(ActionItems, MaxActions)}
    \cup {Summary(<<k>>, <<d>>, <<a>>) : k \in KeyPoints, d \in Decisions,
                                         a \in [task : {"task"}, deadline : Deadlines,
                                               priority : {Missing}]}

PostProcessCalls ==
    [fn : {"post_process_summary"}, summary : Summaries,
     context : [meeting_type : {"project_review", "weekly_meeting",
                                "strategic_planning", "general_meeting"},
                industry : {"finance"}]]

OptimizerCalls == AnalyzeCalls \cup PostProcessCalls

InitOptimizer ==
    /\ adapters = [n \in Names |-> None]
    /\ current_adapter = None
    /\ fallback_order = <<>>
    /\ op = "pending"
    /\ args \in OptimizerCalls
    /\ result = ReturnValue(NoValue)
    /\ trace = <<>>

AnalyzeMeetingContext ==
    /\ op = "pending"
    /\ args.fn = "analyze_meeting_context"
    /\ op' = "analyze_meeting_context"
    /\ result' = ReturnValue(MeetingContext(args.transcript, args.meeting_info))
    /\ UNCHANGED <<adapters, current_adapter, fallback_order, args, trace>>

PostProcess ==
    /\ op = "pending"
    /\ args.fn = "post_process_summary"
    /\ op' = "post_process_summary"
    /\ result' = ReturnValue(PostProcessSummary(args.summary, args.context))
    /\ UNCHANGED <<adapters, current_adapter, fallback_order, args, trace>>

\* post_process_summary called again with the dict it has just returned and
\* the same context
PostProcessAgain ==
    /\ op = "post_process_summary"
    /\ op' = "post_process_again"
    /\ result' = ReturnValue(PostProcessSummary(result.value, args.context))
    /\ UNCHANGED <<adapters, current_adapter, fallback_order, args, trace>>

NextOptimizer == AnalyzeMeetingContext \/ PostProcess \/ PostProcessAgain

SpecOptimizer == InitOptimizer /\ [][NextOptimizer]_vars

(***************************************************************************)
(* EnhancedMeetingAgent (enhanced_agent_demo.py) and the base agent it     *)
(* falls back to (meeting_summary_agent.py).  The manager of the agent is  *)
(* the one the factory built from the configuration.                       *)
(***************************************************************************)
\* most lines of a subtitle text
MaxSubtitleLines == 2

Whitespace == {" ", NL}

\* str.strip()
Strip(s) ==
    LET keep == {i \in 1..Len(s) : s[i] \notin Whitespace}
    IN  IF keep = {} THEN <<>>
        ELSE SubSeq(s, CHOOSE i \in keep : \A j \in keep : i <= j,
                       CHOOSE i \in keep : \A j \in keep : j <= i)

\* the text after the first c
AfterFirst(s, c) == SubSeq(s, Find(s, c) + 2, Len(s))

\* the text before the first c, all of it when there is none
BeforeFirst(s, c) == IF Find(s, c) = -1 THEN s ELSE SubSeq(s, 1, Find(s, c))

\* f"{n:02d}"
TwoDigits(n) ==
    IF n < 100 THEN <<Digits[(n \div 10) + 1], Digits[(n % 10) + 1]>>
    ELSE <<Digits[(n \div 100) + 1], Digits[((n \div 10) % 10) + 1], Digits[(n % 10) + 1]>>

\* f"00:00:{n:02d}"
TimeStamp(n) == <<"0", "0", ":", "0", "0", ":">> \o TwoDigits(n)

\* the body of the loop of _parse_subtitle_text for line i (counted from 0):
\* the segments the line adds
ParseSubtitleLine(i, line) ==
    IF Strip(line) # <<>> /\ Find(line, "]") # -1 /\ Find(line, ":") # -1
    THEN LET speaker_part == Strip(BeforeFirst(AfterFirst(line, "]"), "]"))
         IN  IF Find(speaker_part, ":") # -1
             THEN <<[start_time |-> TimeStamp(i * 15),
                     end_time |-> TimeStamp((i + 1) * 15),
                     speaker |-> Strip(BeforeFirst(speaker_part, ":")),
                     content |-> Strip(AfterFirst(speaker_part, ":"))]>>
             ELSE <<>>
    ELSE <<>>

\* _parse_subtitle_text
ParseSubtitleText(subtitle_text) ==
    LET lines == SplitLines(Strip(subtitle_text))
    IN  Concat([i \in 1..Len(lines) |-> ParseSubtitleLine(i - 1, lines[i])])

\* MeetingSummaryAgent._segments_to_text
SegmentsToText(segments) ==
    Join(NL, [i \in 1..Len(segments) |->
                 <<"[">> \o segments[i].start_time \o <<"]", " ">> \o segments[i].speaker
                   \o <<":", " ">> \o segments[i].content])

\* the members "D" stands for in a response body: one key point, one
\* decision about the budget and one action item due tomorrow
DocMembers ==
    [title |-> "title", overview |-> "overview",
     key_points |-> <<[topic |-> "topic", content |-> <<"x">>]>>,
     decisions |-> <<[content |-> <<"u9884", "u7b97">>, responsible |-> "owner"]>>,
     action_items |-> <<[task |-> "task", deadline |-> DeadlineText(<<"u660e", "u5929">>)]>>,
     risks |-> <<>>, opportunities |-> <<>>]

\* MeetingSummaryAgent._create_basic_summary as a dict
CreateBasicSummary(transcript_text) ==
    LET lines == SplitLines(transcript_text)
        first == Take(lines, 5)
        kept == {i \in 1..Len(first) : Strip(first[i]) # <<>>}
    IN  [type |-> "dict", origin |-> "base_template",
         title |-> "summary (basic)", overview |-> <<"segments", Len(lines)>>,
         key_points |-> Concat([i \in 1..Len(first) |->
                          IF i \in kept
                          THEN <<[topic |-> <<"point", i>>, content |-> Strip(first[i]),
                                  participants |-> <<"unknown">>, timestamp |-> "unknown"]>>
                          ELSE <<>>]),
         decisions |-> <<>>, action_items |-> <<>>,
         confidence_score |-> "0.5", processing_time |-> "0.0"]

\* MeetingSummaryAgent.generate_summary(segments).__dict__: the base agent
\* calls OpenAI itself with its own template
BaseGenerateSummary(transcript_text, be) ==
    IF ~PromptFormat(PromptTemplate, transcript_text).ok THEN Raised
    ELSE IF be.status # "ok" THEN Raised
    ELSE LET parsed == JsonLoads(be.body)
         IN  IF ~parsed.ok THEN Returned(CreateBasicSummary(transcript_text))
             ELSE IF parsed.val.type # "dict" THEN Raised
             ELSE Returned([type |-> "dict", origin |-> "base_backend",
                            title |-> DocMembers.title, overview |-> DocMembers.overview,
                            key_points |-> DocMembers.key_points,
                            decisions |-> DocMembers.decisions,
                            action_items |-> DocMembers.action_items,
                            confidence_score |-> "0.9", processing_time |-> "0.0"])

\* a dict with the keys of extra added where it has none of that name
Extend(r, extra) ==
    [f \in (DOMAIN r) \cup (DOMAIN extra) |-> IF f \in DOMAIN r THEN r[f] ELSE extra[f]]

\* the dict handed to post_process_summary, every key it may lack written
\* with the value that stands for "no such key"
SummaryData(val) ==
    LET doc == IF val.origin = "backend" THEN Extend(val, DocMembers) ELSE val
    IN  Extend([doc EXCEPT
                  !.key_points = [i \in 1..Len(doc.key_points) |->
                                     Extend(doc.key_points[i], [importance |-> Missing])],
                  !.decisions = [i \in 1..Len(doc.decisions) |->
                                    Extend(doc.decisions[i], [urgency |-> Missing])],
                  !.action_items = [i \in 1..Len(doc.action_items) |->
                                       Extend(doc.action_items[i],
                                              [priority |-> Missing,
                                               deadline |-> DeadlineMissing])]],
               [industry |-> Missing, meeting_type |-> Missing,
                key_decisions |-> [given |-> FALSE, items |-> <<>>]])

\* _get_successful_adapter
GetSuccessfulAdapter == "openai"

\* the dict process_subtitle_directly returns (the clock readings left out)
SubtitleResult(segments, optimized_summary, context) ==
    [meeting_id |-> "subtitle_meeting",
     input_type |-> "subtitle_text",
     transcript_segments |-> segments,
     summary |-> optimized_summary,
     context |-> [meeting_type |-> context.meeting_type, industry |-> context.industry,
                  keywords |-> context.keywords, participants |-> context.participants],
     enhanced_info |-> [processing_engine |-> "enhanced_subtitle_direct",
                        ai_service_used |-> GetSuccessfulAdapter,
                        context_optimization |-> TRUE]]

\* subtitle lines: two well-formed ones and one whose text after the bracket
\* has no colon
SubtitleLines ==
    {<<"[", "0", ":", "1", "]", " ", "A", ":", " ", "x">>,
     <<"[", "0", "]", "B", ":", "u9884", "u7b97">>,
     <<"a", ":", "b", "]", "c">>}

\* the managers create_ai_service_manager returns for the ai_services
\* sections an agent is built from: no fallback order or the empty one
AgentManagers ==
    {[adapters |-> CreateOutcome(config, {}).adapters,
      current |-> CreateOutcome(config, {}).current,
      fallback |-> CreateOutcome(config, {}).fallback] :
        config \in {c \in [enabled : SUBSET Names,
                           primary_adapter : Names \cup {None},
                           fallback_order : {OrderAbsent, OrderGiven(<<>>)}] :
                       ~CreateOutcome(c, {}).result.raised}}

\* the calls: every subtitle text without meeting_info, the texts of one
\* line also with it
AgentCalls ==
    [fn : {"process_subtitle_directly"},
     subtitle_text : {Join(NL, q) : q \in SeqsUpTo(SubtitleLines, MaxSubtitleLines)},
     meeting_info : {MeetingInfoEmpty}]
    \cup [fn : {"process_subtitle_directly"}, subtitle_text : SubtitleLines,
          meeting_info : {MeetingInfoGiven}]

\* EnhancedMeetingAgent(): the agent holds the manager the factory built; a
\* call of process_subtitle_directly is pending
InitAgent ==
    /\ \E m \in AgentManagers :
          /\ adapters = m.adapters
          /\ current_adapter = m.current
          /\ fallback_order = m.fallback
    /\ op = "pending"
    /\ args \in AgentCalls
    /\ result = ReturnValue(NoValue)
    /\ trace = <<>>

\* process_subtitle_directly.  The locals segments, transcript_text, context
\* and optimized_prompt are computed in the order of the code; be is what
\* OpenAI does when the base agent calls it after the manager failed
ProcessSubtitleDirectly(subtitle_text, meeting_info) ==
    /\ op = "pending"
    /\ args.fn = "process_subtitle_directly"
    /\ args.subtitle_text = subtitle_text
    /\ args.meeting_info = meeting_info
    /\ \E segments \in {ParseSubtitleText(subtitle_text)} :
       \E transcript_text \in {SegmentsToText(segments)} :
       \E context \in {MeetingContext(transcript_text, meeting_info)} :
       \E optimized_prompt \in {OptimizeSummaryPrompt(transcript_text, context)} :
       \E r \in PrimaryBlock(transcript_text, optimized_prompt) :
       \E be \in (IF r.result.raised
                  THEN BackendOutcomes("OpenAIAdapter", ManagerBodies)
                  ELSE {NotCalled}) :
          LET summary_data == IF r.result.raised
                              THEN BaseGenerateSummary(transcript_text, be)
                              ELSE Returned(r.result.value)
          IN  /\ trace' = r.trace
              /\ result' =
                   IF summary_data.ok
                   THEN ReturnValue(SubtitleResult(segments,
                                       PostProcessSummary(SummaryData(summary_data.val),
                                                          context),
                                       context))
                   ELSE Raise("Exception", <<>>)
              /\ args' = [fn |-> "process_subtitle_directly",
                          subtitle_text |-> subtitle_text, meeting_info |-> meeting_info,
                          transcript_text |-> transcript_text,
                          optimized_prompt |-> optimized_prompt]
    /\ op' = "process_subtitle_directly"
    /\ UNCHANGED <<adapters, current_adapter, fallback_order>>

NextAgent == ProcessSubtitleDirectly(args.subtitle_text, args.meeting_info)

SpecAgent == InitAgent /\ [][NextAgent]_vars

(***************************************************************************)
(* Properties of generate_summary_with_fallback, read off the record of    *)
(* the call: position 0 is the primary, position i the i-th fallback.      *)
(***************************************************************************)
IsFallbackCall == op = "generate_summary_with_fallback"

Positions == 0..Len(fallback_order)

PositionName(s) == IF s = 0 THEN current_adapter ELSE fallback_order[s]

\* the adapter methods invoked for position s, in order
PositionEvents(s) == SelectSeq(trace, LAMBDA e : e.slot = s)

\* every event at s is on the adapter registered under the name at s
OnPositionAdapter(s) ==
    \A i \in 1..Len(PositionEvents(s)) :
        /\ PositionEvents(s)[i].name = PositionName(s)
        /\ PositionEvents(s)[i].adapter = adapters[PositionName(s)]

\* the candidate at s is no key of the registry (or no primary is set) and
\* nothing was invoked for it
PositionAbsent(s) ==
    /\ ~(Truthy(PositionName(s)) /\ Registered(PositionName(s)))
    /\ PositionEvents(s) = <<>>

\* the candidate at s was probed, answered false, and was not called
PositionUnavailable(s) ==
    /\ Registered(PositionName(s))
    /\ OnPositionAdapter(s)
    /\ Len(PositionEvents(s)) = 1
    /\ PositionEvents(s)[1].call = "is_available"
    /\ ~PositionEvents(s)[1].ok

\* the candidate at s was probed, answered true, and was called once
PositionCalled(s) ==
    /\ Registered(PositionName(s))
    /\ OnPositionAdapter(s)
    /\ Len(PositionEvents(s)) = 2
    /\ PositionEvents(s)[1].call = "is_available"
    /\ PositionEvents(s)[1].ok
    /\ PositionEvents(s)[2].call = "generate_summary"

PositionRaised(s) == PositionCalled(s) /\ ~PositionEvents(s)[2].ok

PositionReturned(s) == PositionCalled(s) /\ PositionEvents(s)[2].ok

PositionFailed(s) == PositionAbsent(s) \/ PositionUnavailable(s) \/ PositionRaised(s)

\* the events come position by position
TraceInOrder == \A i, j \in 1..Len(trace) : i < j => trace[i].slot <= trace[j].slot

\* C1: when the primary is registered, answers is_available() with true and
\* its generate_summary returns, the call returns exactly that value, the
\* only methods invoked are that probe and that call, and no adapter named in
\* the fallback order (other than the primary's own) is probed or called.
PrimaryResultReturned ==
    (IsFallbackCall /\ PositionReturned(0)) =>
        /\ ~result.raised
        /\ result.value = PositionEvents(0)[2].val
        /\ trace = PositionEvents(0)
        /\ \A i \in 1..Len(fallback_order) :
              (Registered(fallback_order[i])
                 /\ adapters[fallback_order[i]] # adapters[current_adapter]) =>
                    \A j \in 1..Len(trace) : trace[j].adapter # adapters[fallback_order[i]]

\* a call answered by the primary while a different adapter, registered under
\* the first fallback name, was left alone
PrimaryResultReturnedWitness ==
    /\ IsFallbackCall
    /\ PositionReturned(0)
    /\ Len(fallback_order) >= 1
    /\ Registered(fallback_order[1])
    /\ adapters[fallback_order[1]] # adapters[current_adapter]
    /\ result.value = PositionEvents(0)[2].val

\* C2: when the primary is unset, unregistered, unavailable or raised, a call
\* that returns a value returns the value of the first fallback position that
\* is registered, available and whose generate_summary returns; every earlier
\* position was unregistered, unavailable or raised, each was passed over in
\* the configured order, and nothing after the successful one is probed or
\* called.  Whenever a fallback returns, the call returns.
FirstWorkingFallbackUsed ==
    (IsFallbackCall /\ PositionFailed(0)) =>
        /\ TraceInOrder
        /\ (\E s \in 1..Len(fallback_order) : PositionReturned(s)) <=> ~result.raised
        /\ ~result.raised =>
              \E s \in 1..Len(fallback_order) :
                  /\ PositionReturned(s)
                  /\ result.value = PositionEvents(s)[2].val
                  /\ \A t \in 1..(s - 1) : PositionFailed(t)
                  /\ \A t \in (s + 1)..Len(fallback_order) : PositionEvents(t) = <<>>

\* the second fallback answered after the primary raised and the first
\* fallback, registered, was unavailable
FirstWorkingFallbackUsedWitness ==
    /\ IsFallbackCall
    /\ PositionRaised(0)
    /\ Len(fallback_order) = 2
    /\ PositionUnavailable(1)
    /\ PositionReturned(2)
    /\ result.value = PositionEvents(2)[2].val

\* C3: the call fails with the exhaustion RuntimeError, returning no document,
\* exactly when every candidate, the primary and each fallback position, was
\* unregistered, unavailable or raised from generate_summary.
ExhaustionIffAllFailed ==
    IsFallbackCall =>
        /\ result.raised <=> \A s \in Positions : PositionFailed(s)
        /\ result.raised => (result.exc = "RuntimeError" /\ result.value = NoValue)

\* exhaustion after the primary raised, one fallback was unavailable and one
\* fallback name was not registered
ExhaustionIffAllFailedWitness ==
    /\ IsFallbackCall
    /\ result.raised
    /\ PositionRaised(0)
    /\ Len(fallback_order) = 2
    /\ \E s, t \in 1..2 : PositionUnavailable(s) /\ PositionAbsent(t)

\* the adapter names that occur in the message of an error
NamesInMessage(msg) == {n \in Names : \E i \in 1..Len(msg) : msg[i] = n}

\* C4: when the call fails by exhaustion, the error names every adapter that
\* was tried (stated here as: every adapter probed during the call is named in
\* the message).
ExhaustionErrorNamesAdapters ==
    (IsFallbackCall /\ result.raised) =>
        \A i \in 1..Len(trace) : trace[i].name \in NamesInMessage(result.msg)

\* C7: when the primary is available and its generate_summary returns its
\* degradation template, the call returns that degraded document and the
\* fallback order is not consulted, whatever adapters are registered there.
DegradedPrimaryShortCircuits ==
    (/\ IsFallbackCall
     /\ PositionReturned(0)
     /\ PositionEvents(0)[2].val = DegradationTemplate(adapters[current_adapter], args.transcript)) =>
        /\ result = ReturnValue(DegradationTemplate(adapters[current_adapter], args.transcript))
        /\ \A s \in 1..Len(fallback_order) : PositionEvents(s) = <<>>

\* the OpenAI primary degraded while a registered fallback stood by
DegradedPrimaryShortCircuitsWitness ==
    /\ IsFallbackCall
    /\ current_adapter = "openai"
    /\ adapters["openai"] = "OpenAIAdapter"
    /\ PositionReturned(0)
    /\ result.value = CreateFallbackSummary(args.transcript)
    /\ fallback_order = <<"local_model", "baidu">>
    /\ adapters["local_model"] = "LocalModelAdapter"
    /\ adapters["baidu"] = "BaiduAIAdapter"

(***************************************************************************)
(* Properties of the adapters' generate_summary.                           *)
(***************************************************************************)
IsAdapterCall == op = "generate_summary"

\* the backend call failed in transport: the client raised, or the backend
\* answered with a non-success status
TransportFailure(be) == be.status \in {"exception", "http_error"}

\* C5 as stated: a transport/auth failure of the backend call makes
\* generate_summary raise, for each of the three adapters.
TransportFailureRaises ==
    (IsAdapterCall /\ TransportFailure(args.be)) => result.raised

\* C5 as the code has it: a transport/auth failure makes generate_summary of
\* the OpenAI adapter raise; the local-model and the Baidu adapter catch it
\* and return their degradation template.
TransportFailureByAdapter ==
    (IsAdapterCall /\ TransportFailure(args.be)) =>
        IF args.kind = "OpenAIAdapter"
        THEN result.raised /\ result.value = NoValue
        ELSE result = ReturnValue(DegradationTemplate(args.kind, args.transcript))

\* the Baidu backend refused the request and the adapter returned its template
TransportFailureByAdapterWitness ==
    /\ IsAdapterCall
    /\ args.kind = "BaiduAIAdapter"
    /\ args.be = BackendHttpError
    /\ args.transcript = TranscriptSixLines
    /\ result = ReturnValue(CreateBaiduFallbackSummary(TranscriptSixLines))

\* the text an adapter hands to json.loads: the body, for the local model
\* the part from the first { to the last }
DecodedText(kind, body) ==
    IF kind = "LocalModelAdapter" /\ Find(body, "{") # -1 /\ RFind(body, "}") + 1 > Find(body, "{")
    THEN Slice(body, Find(body, "{"), RFind(body, "}") + 1)
    ELSE body

\* a response that is no JSON, or JSON that is no SummaryDocument
Malformed(kind, body) ==
    \/ ~JsonLoads(DecodedText(kind, body)).ok
    \/ JsonLoads(DecodedText(kind, body)).val.type # "dict"
    \/ JsonLoads(DecodedText(kind, body)).val.keys # RequiredKeys

\* C6: when the backend call succeeds and the response is malformed (no JSON,
\* or JSON that does not match the SummaryDocument schema), generate_summary
\* does not raise and returns the adapter's degradation template.
MalformedResponseDegrades ==
    (IsAdapterCall /\ args.be.status = "ok" /\ Malformed(args.kind, args.be.body)) =>
        result = ReturnValue(DegradationTemplate(args.kind, args.transcript))

(***************************************************************************)
(* Properties of the registry operations and of the factory.               *)
(***************************************************************************)
\* C8: set_primary_adapter(name) makes name the primary when name is
\* registered; otherwise it raises ValueError and leaves the primary, the
\* registry and the fallback order as they were.
SetPrimaryChecksRegistry ==
    [][op' = "set_primary_adapter" =>
          IF adapters[args'.name] # None
          THEN /\ ~result'.raised
               /\ current_adapter' = args'.name
               /\ UNCHANGED <<adapters, fallback_order>>
          ELSE /\ result'.raised
               /\ result'.exc = "ValueError"
               /\ UNCHANGED <<adapters, current_adapter, fallback_order>>]_vars

\* a refused designation that left an earlier primary in place
SetPrimaryChecksRegistryWitness ==
    /\ op = "set_primary_adapter"
    /\ result.raised
    /\ result.exc = "ValueError"
    /\ adapters[args.name] = None
    /\ current_adapter # None
    /\ current_adapter # args.name

\* C9: when every enabled provider's adapter is constructed, the factory
\* registers exactly the enabled providers, and it raises ValueError instead
\* of returning a manager exactly when the configured primary ("openai" when
\* none is configured) is not among them; unregistered names in the fallback
\* order raise nothing and the order is stored as given.
FactoryChecksPrimary ==
    (op = "create_ai_service_manager" /\ args.ctor_fail = {}) =>
        LET cfg == args.config
            primary == IF cfg.primary_adapter = None THEN "openai" ELSE cfg.primary_adapter
        IN  /\ \A n \in Names : (adapters[n] # None) <=> (n \in cfg.enabled)
            /\ (primary \notin cfg.enabled) <=> result.raised
            /\ result.raised => (result.exc = "ValueError" /\ result.value = NoValue)
            /\ ~result.raised =>
                  /\ current_adapter = primary
                  /\ fallback_order = (IF cfg.fallback_order.given
                                       THEN cfg.fallback_order.order
                                       ELSE <<"local_model", "baidu">>)

\* the default primary "openai" is not enabled while another provider is
FactoryChecksPrimaryWitness ==
    /\ op = "create_ai_service_manager"
    /\ args.ctor_fail = {}
    /\ args.config.primary_adapter = None
    /\ args.config.enabled = {"baidu"}
    /\ adapters["baidu"] = "BaiduAIAdapter"
    /\ result.raised
    /\ result.exc = "ValueError"

\* C10: register_adapter is an upsert: the registry afterwards maps the name
\* to the adapter just registered and every other name to what it mapped to
\* before, so that registering what is already there changes nothing; the
\* primary and the fallback order are untouched, and a later
\* generate_summary_with_fallback probes first the adapter now registered
\* under the primary's name.
RegisterAdapterUpsert ==
    [][/\ op' = "register_adapter" =>
            /\ adapters' = [n \in Names |-> IF n = args'.name THEN args'.adapter
                                            ELSE adapters[n]]
            /\ (adapters[args'.name] = args'.adapter => adapters' = adapters)
            /\ UNCHANGED <<current_adapter, fallback_order>>
       /\ (op' = "generate_summary_with_fallback" /\ current_adapter' # None) =>
            /\ trace' # <<>>
            /\ trace'[1].slot = 0
            /\ trace'[1].call = "is_available"
            /\ trace'[1].adapter = adapters'[current_adapter']]_vars

\* the primary's name registered again with a different adapter
RegisterAdapterUpsertWitness ==
    /\ op = "register_adapter"
    /\ args.before # None
    /\ args.before # args.adapter
    /\ current_adapter = args.name
    /\ adapters[args.name] = args.adapter

(***************************************************************************)
(* Properties of get_available_adapters.                                   *)
(***************************************************************************)
\* C11: get_available_adapters returns one entry for each registered name and
\* none for any other, whose "available" is what is_available() of that
\* adapter answers during this call, whatever an earlier call reported, with
\* the adapter's model info; the registry, the primary and the fallback order
\* are left as they were.
AvailableAdaptersSnapshot ==
    [][op' = "get_available_adapters" =>
          /\ ~result'.raised
          /\ \A n \in Names :
                /\ result'.value.info[n].registered <=> (adapters[n] # None)
                /\ adapters[n] # None =>
                      /\ result'.value.info[n].available = args'.probe[n]
                      /\ result'.value.info[n].info = GetModelInfo(adapters[n])
          /\ UNCHANGED <<adapters, current_adapter, fallback_order>>]_vars

\* a snapshot with one adapter up, one down and one name not registered
AvailableAdaptersSnapshotWitness ==
    /\ op = "get_available_adapters"
    /\ \E a, b, c \in Names :
          /\ adapters[a] # None /\ result.value.info[a].available
          /\ adapters[b] # None /\ ~result.value.info[b].available
          /\ adapters[c] = None /\ ~result.value.info[c].registered

(***************************************************************************)
(* Properties of is_available.                                             *)
(***************************************************************************)
\* the probe of an adapter cannot succeed: no client or a failing metadata
\* call, no model or no tokenizer, no access token
ProbeFails(st) ==
    \/ args.kind = "OpenAIAdapter" /\ (st.client = None \/ st.list_call = "raises")
    \/ args.kind = "LocalModelAdapter" /\ (st.model = None \/ st.tokenizer = None)
    \/ args.kind = "BaiduAIAdapter" /\ st.access_token = None

\* C12: is_available() of every adapter never raises: it returns a boolean,
\* false whenever the probe fails inside (failing metadata call, missing
\* client, model, tokenizer or token) and true otherwise.
IsAvailableNeverRaises ==
    op = "is_available" =>
        /\ ~result.raised
        /\ result.value = BoolValue(~ProbeFails(args.st))

\* the OpenAI metadata call raised and the probe answered false
IsAvailableNeverRaisesWitness ==
    /\ op = "is_available"
    /\ args.kind = "OpenAIAdapter"
    /\ args.st.client # None
    /\ args.st.list_call = "raises"
    /\ result = ReturnValue(BoolValue(FALSE))

(***************************************************************************)
(* Properties of the degradation templates.                                *)
(***************************************************************************)
\* the number of lines a family's template keeps
TemplateLines(kind) ==
    IF kind = "OpenAIAdapter" THEN 5 ELSE IF kind = "LocalModelAdapter" THEN 3 ELSE 4

\* the number of newline characters among the first i characters of s
NewlinesUpTo(s, i) == Cardinality({j \in 1..i : s[j] = NL})

\* the text before the n-th newline of s, all of s when it has fewer
TextOfFirstLines(s, n) ==
    IF NewlinesUpTo(s, Len(s)) < n THEN s
    ELSE SubSeq(s, 1, (CHOOSE i \in 1..Len(s) : s[i] = NL /\ NewlinesUpTo(s, i) = n) - 1)

\* the texts of a non-empty list joined by newlines
RECURSIVE JoinLines(_)
JoinLines(texts) ==
    IF Len(texts) = 1 THEN texts[1]
    ELSE texts[1] \o <<NL>> \o JoinLines(Tail(texts))

\* C13: for every text, the empty one and one without newline included, each
\* family's degradation template returns a document with every required key,
\* with decisions, action_items, risks and opportunities empty, and with
\* min(N, number of newline-separated lines) key points whose contents are
\* the first lines of the text in order; N is 5, 3 and 4 for OpenAI, the
\* local model and Baidu.
TemplateSchemaValid ==
    op = "create_fallback_summary" =>
        LET doc == result.value
            lines == NewlinesUpTo(args.transcript, Len(args.transcript)) + 1
            n == IF lines < TemplateLines(args.kind) THEN lines ELSE TemplateLines(args.kind)
            contents == [i \in 1..Len(doc.key_points) |-> doc.key_points[i].content]
        IN  /\ ~result.raised
            /\ doc.type = "dict"
            /\ doc.keys = RequiredKeys
            /\ doc.decisions = <<>> /\ doc.action_items = <<>>
            /\ doc.risks = <<>> /\ doc.opportunities = <<>>
            /\ Len(doc.key_points) = n
            /\ \A i \in 1..n : \A j \in 1..Len(contents[i]) : contents[i][j] # NL
            /\ JoinLines(contents) = TextOfFirstLines(args.transcript, n)

\* the template of the empty text: one key point with empty content
TemplateSchemaValidWitness ==
    /\ op = "create_fallback_summary"
    /\ args.transcript = <<>>
    /\ Len(result.value.key_points) = 1
    /\ result.value.key_points[1].content = <<>>
    /\ result.value.decisions = <<>>

(***************************************************************************)
(* Properties of analyze_meeting_context.                                  *)
(***************************************************************************)
IsAnalyzeCall == op = "analyze_meeting_context"

\* the keyword set of a type in a keyword table
KeywordsOfType(table, type) ==
    UNION {{table[i].words[j] : j \in 1..Len(table[i].words)} :
             i \in {k \in 1..Len(table) : table[k].type = type}}

\* some keyword of the type occurs in the text as a substring
Mentions(table, type, text) == \E w \in KeywordsOfType(table, type) : Contains(text, w)

\* the first type of order whose keyword set has a member in the text
RECURSIVE FirstMentioned(_, _, _, _)
FirstMentioned(table, order, text, default) ==
    IF order = <<>> THEN default
    ELSE IF Mentions(table, Head(order), text) THEN Head(order)
    ELSE FirstMentioned(table, Tail(order), text, default)

\* C14: the detected meeting type is the first of project_review,
\* weekly_meeting, strategic_planning whose keyword set has a member occurring
\* in the transcript, general_meeting when none has; a transcript with both
\* U+9879 U+76EE (project) and U+6218 U+7565 (strategy) is project_review.
MeetingTypeFirstMatch ==
    IsAnalyzeCall =>
        /\ result.value.meeting_type =
              FirstMentioned(MeetingTypeKeywords,
                             <<"project_review", "weekly_meeting", "strategic_planning">>,
                             args.transcript, "general_meeting")
        /\ (Contains(args.transcript, <<"u9879", "u76ee">>)
              /\ Contains(args.transcript, <<"u6218", "u7565">>))
             => result.value.meeting_type = "project_review"

\* "strategy" written before "project": project_review
MeetingTypeFirstMatchWitness ==
    /\ IsAnalyzeCall
    /\ args.transcript = <<"u6218", "u7565", "u9879", "u76ee">>
    /\ result.value.meeting_type = "project_review"

\* C15: the detected industry is the first of tech, finance, manufacturing,
\* healthcare whose keyword set has a member occurring in the transcript,
\* general when no keyword occurs; for every keyword, ROI and FDA included.
IndustryFirstMatch ==
    IsAnalyzeCall =>
        result.value.industry =
            FirstMentioned(IndustryDetectKeywords,
                           <<"tech", "finance", "manufacturing", "healthcare">>,
                           args.transcript, "general")

\* C16 as stated: keyword extraction returns at most 15 entries and no entry
\* of two characters or fewer, the entries taken from the industry vocabulary
\* included.
KeywordsAllLong ==
    IsAnalyzeCall =>
        /\ Len(result.value.keywords) <= 15
        /\ \A i \in 1..Len(result.value.keywords) : Len(result.value.keywords[i]) > 2

\* C16 as the code has it: keyword extraction returns at most 15 entries, and
\* an entry of two characters or fewer is a term of the detected industry's
\* vocabulary that occurs in the transcript; every other entry is longer.
KeywordsLongOrVocabulary ==
    IsAnalyzeCall =>
        /\ Len(result.value.keywords) <= 15
        /\ \A i \in 1..Len(result.value.keywords) :
              Len(result.value.keywords[i]) <= 2 =>
                 /\ result.value.industry \in DOMAIN industry_keywords
                 /\ InList(result.value.keywords[i], industry_keywords[result.value.industry])
                 /\ Contains(args.transcript, result.value.keywords[i])

\* more than 15 candidates cut to 15, a two-character vocabulary term among them
KeywordsLongOrVocabularyWitness ==
    /\ IsAnalyzeCall
    /\ args.transcript = TranscriptManyWords
    /\ result.value.industry = "finance"
    /\ Len(result.value.keywords) = 15
    /\ InList(<<"u9884", "u7b97">>, result.value.keywords)
    /\ InList(NumberedWord(1), result.value.keywords)

(***************************************************************************)
(* Properties of post_process_summary: the summary handed in is            *)
(* args.summary, the one returned result.value.                            *)
(***************************************************************************)
IsPostProcessCall == op = "post_process_summary"

Levels == {"high", "medium", "low"}

\* C17: after post_process_summary every key point has an importance, every
\* decision an urgency and every action item a priority, each one of high,
\* medium, low, also when the summary handed in had none.
TagsPopulated ==
    IsPostProcessCall =>
        /\ \A i \in 1..Len(result.value.key_points) :
              result.value.key_points[i].importance \in Levels
        /\ \A i \in 1..Len(result.value.decisions) :
              result.value.decisions[i].urgency \in Levels
        /\ \A i \in 1..Len(result.value.action_items) :
              result.value.action_items[i].priority \in Levels

\* the decision patterns of a meeting type, none for a type without template
DecisionPatternsOf(meeting_type) ==
    IF meeting_type \in DOMAIN meeting_templates
    THEN {meeting_templates[meeting_type].decision_patterns[j] :
             j \in 1..Len(meeting_templates[meeting_type].decision_patterns)}
    ELSE {}

\* the score the claim gives the i-th decision of the call
ClaimedScore(i) ==
    2 * (IF \E w \in DecisionPatternsOf(args.context.meeting_type) :
               Contains(args.summary.decisions[i].content, w) THEN 1 ELSE 0)
    + (IF \E j \in 1..Len(HighImpactWords) :
               Contains(args.summary.decisions[i].content, HighImpactWords[j]) THEN 1 ELSE 0)

\* the decisions that score 2 or more, and the first three of them
KeyIndices == {i \in 1..Len(args.summary.decisions) : ClaimedScore(i) >= 2}

FirstThreeKeyIndices == {i \in KeyIndices : Cardinality({j \in KeyIndices : j < i}) < 3}

\* the k-th smallest member of a set of numbers
KthOf(S, k) == CHOOSE i \in S : Cardinality({j \in S : j < i}) = k - 1

\* C18: each decision gets urgency high iff its score is 2 or more, medium
\* iff it is 1, low iff it is 0, the score being 2 for a decision pattern of
\* the context's meeting type in the content plus 1 for a high-impact word;
\* key_decisions is the first three decisions of score 2 or more in their
\* order (not written when there is none), so no decision of lower score is
\* in it; "we decide to approve this budget" under strategic_planning is
\* tagged high and is in key_decisions.
DecisionScoring ==
    IsPostProcessCall =>
        LET out == result.value
            n == Len(args.summary.decisions)
        IN  /\ Len(out.decisions) = n
            /\ \A i \in 1..n :
                  /\ out.decisions[i].content = args.summary.decisions[i].content
                  /\ out.decisions[i].urgency = "high" <=> ClaimedScore(i) >= 2
                  /\ out.decisions[i].urgency = "medium" <=> ClaimedScore(i) = 1
                  /\ out.decisions[i].urgency = "low" <=> ClaimedScore(i) = 0
            /\ out.key_decisions.given <=> KeyIndices # {}
            /\ Len(out.key_decisions.items) = Cardinality(FirstThreeKeyIndices)
            /\ \A k \in 1..Len(out.key_decisions.items) :
                  out.key_decisions.items[k] = out.decisions[KthOf(FirstThreeKeyIndices, k)]
            /\ \A i \in 1..n :
                  (args.context.meeting_type = "strategic_planning"
                     /\ args.summary.decisions[i].content =
                          <<"u6211", "u4eec", "u51b3", "u5b9a", "u6279", "u51c6", "u8be5",
                            "u9884", "u7b97">>
                     /\ Cardinality({j \in KeyIndices : j < i}) < 3)
                    => /\ out.decisions[i].urgency = "high"
                       /\ \E k \in 1..Len(out.key_decisions.items) :
                             out.key_decisions.items[k] = out.decisions[i]

\* four decisions under project_review: one of score 1 first, then three of
\* score 2 or more, which make up key_decisions
DecisionScoringWitness ==
    /\ IsPostProcessCall
    /\ args.context.meeting_type = "project_review"
    /\ Len(args.summary.decisions) = 4
    /\ ClaimedScore(1) = 1
    /\ ClaimedScore(2) = 2
    /\ ClaimedScore(3) = 3
    /\ ClaimedScore(4) = 2
    /\ result.value.decisions[1].urgency = "medium"
    /\ result.value.key_decisions.items = SubSeq(result.value.decisions, 2, 4)

\* some word of the list occurs in the text
HasAny(words, text) == \E j \in 1..Len(words) : Contains(text, words[j])

\* the deadline text of the i-th action item handed in, empty when it has no
\* deadline
DeadlineOf(i) ==
    IF args.summary.action_items[i].deadline.given
    THEN args.summary.action_items[i].deadline.text ELSE <<>>

\* C19: an action item whose deadline text contains "this week", "tomorrow"
\* or "today" gets priority high; otherwise one containing "next week" or
\* "end of month" gets medium; any other non-empty deadline gets low,
\* whatever priority the item carried; with an empty or missing deadline the
\* priority stays what it was, missing if it was missing.
DeadlinePriority ==
    IsPostProcessCall =>
        /\ Len(result.value.action_items) = Len(args.summary.action_items)
        /\ \A i \in 1..Len(args.summary.action_items) :
              args.summary.action_items[i].deadline.kind = "str" =>
                 result.value.action_items[i].priority =
                    (IF DeadlineOf(i) = <<>> THEN args.summary.action_items[i].priority
                     ELSE IF HasAny(<< <<"u672c", "u5468">>, <<"u660e", "u5929">>,
                                       <<"u4eca", "u5929">> >>, DeadlineOf(i)) THEN "high"
                     ELSE IF HasAny(<< <<"u4e0b", "u5468">>, <<"u6708", "u5e95">> >>,
                                    DeadlineOf(i)) THEN "medium"
                     ELSE "low")

\* "this Friday" became high over no priority, and an item with the empty
\* deadline and no priority still has none
DeadlinePriorityWitness ==
    /\ IsPostProcessCall
    /\ Len(args.summary.action_items) = 2
    /\ args.summary.action_items[1] =
          [task |-> "task", deadline |-> DeadlineText(<<"u672c", "u5468", "u4e94">>),
           priority |-> Missing]
    /\ args.summary.action_items[2] =
          [task |-> "task", deadline |-> DeadlineText(<<>>), priority |-> Missing]
    /\ result.value.action_items[1].priority = "high"
    /\ result.value.action_items[2].priority = Missing

\* C20: a key point's importance becomes high exactly when the meeting type
\* is project_review and its content contains "risk", "delay" or "blocked",
\* or the meeting type is strategic_planning and its content contains
\* "investment", "strategy" or "direction"; every other key point, and every
\* key point under weekly_meeting or general_meeting, keeps the importance it
\* carried and has none if it had none.
ImportanceByMeetingType ==
    IsPostProcessCall =>
        /\ Len(result.value.key_points) = Len(args.summary.key_points)
        /\ \A i \in 1..Len(args.summary.key_points) :
              LET before == args.summary.key_points[i]
                  raised ==
                    \/ /\ args.context.meeting_type = "project_review"
                       /\ HasAny(<< <<"u98ce", "u9669">>, <<"u5ef6", "u671f">>,
                                    <<"u963b", "u585e">> >>, before.content)
                    \/ /\ args.context.meeting_type = "strategic_planning"
                       /\ HasAny(<< <<"u6295", "u8d44">>, <<"u6218", "u7565">>,
                                    <<"u65b9", "u5411">> >>, before.content)
              IN  /\ result.value.key_points[i].content = before.content
                  /\ result.value.key_points[i].importance =
                        (IF raised THEN "high" ELSE before.importance)

\* under project_review "risk" was raised to high while "strategy", which
\* had no importance, still has none
ImportanceByMeetingTypeWitness ==
    /\ IsPostProcessCall
    /\ args.context.meeting_type = "project_review"
    /\ Len(args.summary.key_points) = 2
    /\ args.summary.key_points[1] =
          [topic |-> "topic", content |-> <<"u98ce", "u9669">>, importance |-> "low"]
    /\ args.summary.key_points[2] =
          [topic |-> "topic", content |-> <<"u6218", "u7565">>, importance |-> Missing]
    /\ result.value.key_points[1].importance = "high"
    /\ result.value.key_points[2].importance = Missing

(***************************************************************************)
(* C21: post_process_summary is idempotent for a fixed context: applied to *)
(* its own output it returns the same industry and meeting_type stamp, the *)
(* same importance, priority and urgency on every item and the same        *)
(* key_decisions shortlist as the first application did.                   *)
(***************************************************************************)
IsSecondApplication == op = "post_process_summary" /\ op' = "post_process_again"

PostProcessIdempotent ==
    [][IsSecondApplication =>
        LET first == result.value
            second == result'.value
        IN  /\ second.industry = first.industry
            /\ second.meeting_type = first.meeting_type
            /\ Len(second.key_points) = Len(first.key_points)
            /\ \A i \in 1..Len(first.key_points) :
                  second.key_points[i].importance = first.key_points[i].importance
            /\ Len(second.action_items) = Len(first.action_items)
            /\ \A i \in 1..Len(first.action_items) :
                  second.action_items[i].priority = first.action_items[i].priority
            /\ Len(second.decisions) = Len(first.decisions)
            /\ \A i \in 1..Len(first.decisions) :
                  second.decisions[i].urgency = first.decisions[i].urgency
            /\ second.key_decisions = first.key_decisions]_vars

\* a second application to a dict that carries a raised key point, a dated
\* action item and a shortlist of key decisions
PostProcessIdempotentWitness ==
    /\ op = "post_process_again"
    /\ result.value.key_decisions.given
    /\ Len(result.value.key_decisions.items) >= 1
    /\ \E i \in 1..Len(result.value.key_points) :
          /\ result.value.key_points[i].importance = "high"
          /\ args.summary.key_points[i].importance # "high"
    /\ \E i \in 1..Len(result.value.action_items) :
          result.value.action_items[i].priority \in {"high", "medium", "low"}

(***************************************************************************)
(* C22: the local-model adapter decodes the text of the response from the  *)
(* first "{" through the last "}" inclusive; when the response has no "{", *)
(* no "}", its last "}" before its first "{", or that text is no JSON, it  *)
(* returns the local degradation template and does not raise.              *)
(***************************************************************************)
IsLocalResponse ==
    /\ op = "generate_summary"
    /\ args.kind = "LocalModelAdapter"
    /\ args.be.status = "ok"

BracePositions(body, c) == {i \in 1..Len(body) : body[i] = c}

FirstOf(S) == CHOOSE i \in S : \A j \in S : i <= j

LastOf(S) == CHOOSE i \in S : \A j \in S : j <= i

LocalDecodesBracedText ==
    IsLocalResponse =>
        LET body == args.be.body
            opens == BracePositions(body, "{")
            closes == BracePositions(body, "}")
            template == CreateLocalFallbackSummary(args.transcript)
        IN  /\ ~result.raised
            /\ IF opens # {} /\ closes # {} /\ FirstOf(opens) < LastOf(closes)
               THEN LET parsed == JsonLoads(SubSeq(body, FirstOf(opens), LastOf(closes)))
                    IN  IF parsed.ok THEN result.value = parsed.val
                        ELSE result.value = template
               ELSE result.value = template

\* a document wrapped in free text was decoded, the text around it dropped
LocalDecodesBracedTextWitness ==
    /\ IsLocalResponse
    /\ args.be.body = BodyWrappedDoc
    /\ ~result.raised
    /\ result.value = JsonLoads(BodyDoc).val

(***************************************************************************)
(* C23: within one generate_summary_with_fallback call, generate_summary   *)
(* is invoked on an adapter only directly after an is_available() probe of *)
(* that same adapter answered true; it is never invoked after a probe that *)
(* answered false nor for a name missing from the registry; the candidates *)
(* are tried primary first, then the fallback order from left to right.    *)
(***************************************************************************)
IsProbe(e) == e.call = "is_available"

IsGenerate(e) == e.call = "generate_summary"

ProbeIndices == {j \in 1..Len(trace) : IsProbe(trace[j])}

GenerateOnlyAfterTrueProbe ==
    IsFallbackCall =>
        /\ \A j \in 1..Len(trace) :
              IsGenerate(trace[j]) =>
                  /\ j > 1
                  /\ IsProbe(trace[j - 1])
                  /\ trace[j - 1].ok
                  /\ trace[j - 1].slot = trace[j].slot
                  /\ trace[j - 1].name = trace[j].name
                  /\ trace[j - 1].adapter = trace[j].adapter
        /\ \A j \in ProbeIndices :
              ~trace[j].ok => (j = Len(trace) \/ IsProbe(trace[j + 1]))
        /\ \A j \in 1..Len(trace) :
              /\ trace[j].slot \in Positions
              /\ trace[j].name = PositionName(trace[j].slot)
              /\ Registered(trace[j].name)
              /\ trace[j].adapter = adapters[trace[j].name]
        /\ \A i, j \in ProbeIndices : i < j => trace[i].slot < trace[j].slot

\* the primary answered false and was not called; the next candidate was
\* probed, answered true and was called
GenerateOnlyAfterTrueProbeWitness ==
    /\ IsFallbackCall
    /\ Len(trace) = 3
    /\ IsProbe(trace[1]) /\ ~trace[1].ok /\ trace[1].slot = 0
    /\ IsProbe(trace[2]) /\ trace[2].ok /\ trace[2].slot >= 1
    /\ IsGenerate(trace[3]) /\ trace[3].slot = trace[2].slot

(***************************************************************************)
(* C26: after any sequence of register_adapter, set_primary_adapter        *)
(* (successful or failing), set_fallback_order, get_available_adapters and *)
(* generate_summary_with_fallback calls, the designated primary is either  *)
(* unset or the name of a currently registered adapter.                    *)
(***************************************************************************)
PrimaryUnsetOrRegistered ==
    current_adapter = None \/ (current_adapter \in Names /\ adapters[current_adapter] # None)

\* a set_primary_adapter call that failed on a manager whose primary was set
\* before: the earlier primary is still designated
PrimaryUnsetOrRegisteredWitness ==
    /\ op = "set_primary_adapter"
    /\ result.raised
    /\ current_adapter # None
    /\ args.name # current_adapter
    /\ adapters[args.name] = None

(***************************************************************************)
(* C27: generate_summary_with_fallback, whether it returns a document or   *)
(* fails by exhaustion, leaves the registry, the designated primary and    *)
(* the fallback order unchanged; a failing primary is not demoted: every   *)
(* call, also the one after a failure, begins with the primary.            *)
(***************************************************************************)
FallbackCallKeepsConfiguration ==
    [][op' = "generate_summary_with_fallback" =>
          /\ adapters' = adapters
          /\ current_adapter' = current_adapter
          /\ fallback_order' = fallback_order
          /\ (Truthy(current_adapter) /\ Registered(current_adapter)) =>
                /\ trace' # <<>>
                /\ trace'[1].call = "is_available"
                /\ trace'[1].slot = 0
                /\ trace'[1].name = current_adapter]_vars

\* a call that failed by exhaustion after its primary raised: the primary is
\* still designated and registered
FallbackCallKeepsConfigurationWitness ==
    /\ IsFallbackCall
    /\ result.raised
    /\ PositionRaised(0)
    /\ Truthy(current_adapter)
    /\ Registered(current_adapter)
    /\ trace[1].name = current_adapter

(***************************************************************************)
(* C28: when the primary's name also appears in the fallback order, or a   *)
(* name appears there more than once, and no earlier attempt returned a    *)
(* document, the same adapter is probed again and, if available, invoked   *)
(* again at each such position; one call makes at most                     *)
(* 1 + len(fallback_order) generate_summary invocations.                   *)
(***************************************************************************)
GenerateIndices == {j \in 1..Len(trace) : trace[j].call = "generate_summary"}

\* position t repeats the name of an earlier position
RepeatsEarlier(t) ==
    \E s \in Positions : s < t /\ Truthy(PositionName(s)) /\ PositionName(s) = PositionName(t)

RepeatedNameTriedAgain ==
    IsFallbackCall =>
        /\ Cardinality(GenerateIndices) <= 1 + Len(fallback_order)
        /\ \A t \in Positions :
              (/\ RepeatsEarlier(t)
               /\ Registered(PositionName(t))
               /\ \A u \in 0..(t - 1) : ~PositionReturned(u)) =>
                  /\ PositionEvents(t) # <<>>
                  /\ PositionEvents(t)[1].call = "is_available"
                  /\ PositionEvents(t)[1].name = PositionName(t)
                  /\ IF PositionEvents(t)[1].ok
                     THEN /\ Len(PositionEvents(t)) = 2
                          /\ PositionEvents(t)[2].call = "generate_summary"
                          /\ PositionEvents(t)[2].name = PositionName(t)
                     ELSE Len(PositionEvents(t)) = 1

\* one call invoked generate_summary of the same adapter twice, under the
\* same name, the first invocation having raised
RepeatedNameTriedAgainWitness ==
    /\ IsFallbackCall
    /\ \E i, j \in GenerateIndices :
          /\ i < j
          /\ trace[i].name = trace[j].name
          /\ trace[i].adapter = trace[j].adapter
          /\ ~trace[i].ok

(***************************************************************************)
(* C29: generate_summary of the local-model adapter and of the Baidu       *)
(* adapter never raises, every failure returning the adapter's degradation *)
(* template; so once generate_summary_with_fallback reaches a registered   *)
(* and available adapter of one of these classes it returns that adapter's *)
(* result, nothing after it is invoked and the exhaustion error is not     *)
(* raised.                                                                 *)
(***************************************************************************)
SwallowingAdapters == {"LocalModelAdapter", "BaiduAIAdapter"}

SwallowingAdapterEndsWalk ==
    IsFallbackCall =>
        \A j \in 1..Len(trace) :
            (trace[j].call = "generate_summary" /\ trace[j].adapter \in SwallowingAdapters) =>
                /\ trace[j].ok
                /\ trace[j].val.origin = "template" =>
                      trace[j].val = DegradationTemplate(trace[j].adapter, args.transcript)
                /\ j = Len(trace)
                /\ ~result.raised
                /\ result.value = trace[j].val

\* the local-model adapter, first in the fallback order, answered with its
\* template; the registered second fallback was not touched
SwallowingAdapterEndsWalkWitness ==
    /\ IsFallbackCall
    /\ Len(fallback_order) = 2
    /\ PositionReturned(1)
    /\ adapters[fallback_order[1]] = "LocalModelAdapter"
    /\ result.value = CreateLocalFallbackSummary(args.transcript)
    /\ Registered(fallback_order[2])
    /\ fallback_order[2] # fallback_order[1]
    /\ PositionEvents(2) = <<>>

(***************************************************************************)
(* C30: post_process_summary never adds, removes or reorders entries of    *)
(* key_points, decisions, action_items, risks or opportunities and changes *)
(* no item field other than key-point importance, action-item priority and *)
(* decision urgency; at the top level it writes only industry,             *)
(* meeting_type and, when at least one decision scores 2 or more,          *)
(* key_decisions, whose elements are all members of decisions with urgency *)
(* high.                                                                   *)
(***************************************************************************)
WrittenTopLevel == {"industry", "meeting_type", "key_decisions"}

TaggedLists == {"key_points", "decisions", "action_items"}

\* the two lists have the same length and agree, entry by entry, on every
\* field but tag
SameButTag(before, after, tag) ==
    /\ Len(after) = Len(before)
    /\ \A i \in 1..Len(before) :
          /\ DOMAIN after[i] = DOMAIN before[i]
          /\ \A f \in DOMAIN before[i] \ {tag} : after[i][f] = before[i][f]

PostProcessFrame ==
    IsPostProcessCall =>
        LET before == args.summary
            after == result.value
        IN  /\ DOMAIN after = DOMAIN before
            /\ \A f \in DOMAIN before \ (WrittenTopLevel \cup TaggedLists) :
                  after[f] = before[f]
            /\ SameButTag(before.key_points, after.key_points, "importance")
            /\ SameButTag(before.decisions, after.decisions, "urgency")
            /\ SameButTag(before.action_items, after.action_items, "priority")
            /\ KeyIndices = {} => after.key_decisions = before.key_decisions
            /\ KeyIndices # {} =>
                  /\ after.key_decisions.given
                  /\ \A k \in 1..Len(after.key_decisions.items) :
                        \E i \in 1..Len(after.decisions) :
                            /\ after.key_decisions.items[k] = after.decisions[i]
                            /\ after.decisions[i].urgency = "high"

\* a summary with a key point, a decision of score 2 or more and an action
\* item without deadline: the tags were written, the shortlist holds the
\* decision, the undated action item is still there
PostProcessFrameWitness ==
    /\ IsPostProcessCall
    /\ Len(args.summary.key_points) = 1
    /\ Len(args.summary.action_items) = 1
    /\ ~args.summary.action_items[1].deadline.given
    /\ Len(result.value.action_items) = 1
    /\ KeyIndices = {1}
    /\ result.value.key_decisions.items = <<result.value.decisions[1]>>
    /\ result.value.risks = args.summary.risks
    /\ Len(result.value.risks) = 2

(***************************************************************************)
(* C24: the prompt built by optimize_summary_prompt and handed by          *)
(* process_subtitle_directly to generate_summary_with_fallback is rendered *)
(* by each adapter's prompt.format(transcript=...), so that an available   *)
(* adapter with a healthy backend issues the backend call and returns the  *)
(* decoded answer instead of failing or degrading before the call.         *)
(***************************************************************************)
IsSubtitleCall == op = "process_subtitle_directly"

OptimizedPromptRenders ==
    IsSubtitleCall =>
        /\ PromptFormat(args.optimized_prompt, args.transcript_text).ok
        /\ \A kind \in AdapterKinds :
              GenerateSummary(kind, args.transcript_text, args.optimized_prompt,
                              BackendOk(BodyDoc)) = Returned(JsonLoads(BodyDoc).val)

(***************************************************************************)
(* C25: ai_service_used in the result of process_subtitle_directly names   *)
(* the adapter that produced the returned summary: the primary when it     *)
(* succeeded, the fallback that answered when the primary failed, and no   *)
(* adapter name when the manager was exhausted and the base agent's        *)
(* summary was substituted.                                                *)
(***************************************************************************)
\* the manager returned: the last adapter method invoked was a
\* generate_summary that returned
ManagerAnswered ==
    /\ trace # <<>>
    /\ trace[Len(trace)].call = "generate_summary"
    /\ trace[Len(trace)].ok

ServiceUsedNamesAnswerer ==
    (IsSubtitleCall /\ ~result.raised) =>
        IF ManagerAnswered
        THEN result.value.enhanced_info.ai_service_used = trace[Len(trace)].name
        ELSE result.value.enhanced_info.ai_service_used \notin Names

====
